---- MODULE Spec2Model ----
(***************************************************************************)
(* Chat message normalization and the chat-messages cache of one notebook  *)
(* (hooks useChatMessages, both revisions found in the repository):        *)
(*   "part_005"            src/unnamed/part_005 (flatMap revision)         *)
(*   "useChatMessages.tsx" src/src/hooks/useChatMessages.tsx               *)
(***************************************************************************)
EXTENDS Integers, Sequences, FiniteSets, Bags, TLC

(* ------------------------------ bounds -------------------------------- *)
MaxCitations == 2      \* longest citations array of a generated ChatRow
MaxRows == 2           \* rows ever inserted into chat_messages
MaxPushes == 2         \* INSERT events delivered to the push handler
MaxOutput == 2         \* longest output array of a generated legacy AI content
MaxNotebooks == 2      \* notebooks rows of the signed-in user
MaxMutations == 2      \* mutations of one notebook's selection that overlap
MaxProfiles == 1       \* SIGNED_UP callbacks awaiting createUserProfile at once

(* ------------------------------ values -------------------------------- *)
NULL == "null"                 \* JS null / undefined of a string-valued field
UNDEFINED == <<>>              \* JS undefined of an id
NoIndex == -1                  \* JS undefined of a numeric field
NotebookId == "n1"
Hooks == {"part_005", "useChatMessages.tsx"}

\* JS truthiness of a string-valued field
Truthy(s) == s # NULL /\ s # ""
\* JS a || b on string-valued fields
OrElse(a, b) == IF Truthy(a) THEN a ELSE b

\* the two shapes of message.content: string | {segments, citations}
PlainText(s) == [kind |-> "string", text |-> s]
StructuredContent(segs, cits) == [kind |-> "structured", segments |-> segs, citations |-> cits]

RECURSIVE SeqsUpTo(_, _)
SeqsUpTo(S, n) ==
  IF n = 0 THEN {<<>>}
  ELSE LET shorter == SeqsUpTo(S, n - 1)
       IN shorter \cup {Append(s, x) : s \in {t \in shorter : Len(t) = n - 1}, x \in S}

\* one stored citation (an element of the Json citations column)
CitationInputs ==
  [source_id : {"b1", "b9"}, source_title : {NULL, "Book"}, source_type : {NULL},
   chunk_index : {NoIndex, 5}, chunk_lines_from : {1}, chunk_lines_to : {3}, excerpt : {NULL}]

\* the Json | null citations column: null, an array, or another Json value
CitationsColumn ==
  {[json |-> "null", items |-> <<>>], [json |-> "object", items |-> <<>>]}
    \cup {[json |-> "array", items |-> s] : s \in SeqsUpTo(CitationInputs, MaxCitations)}

UserMessages == {"Hi", "Q"}
AssistantResponses == {NULL, "", "A"}

\* chat_messages.Row
ChatRow(id, um, ar, cit) ==
  [id |-> id, notebook_id |-> NotebookId, user_message |-> um,
   assistant_response |-> ar, citations |-> cit, timestamp |-> id]

\* the books table rows that the lookup is built from
BooksData == {{}, {[id |-> "b1", title |-> "Book One"]}}
\* new Map(booksData?.map(b => [b.id, { title: b.title, type: 'book' }]) || [])
BookMap(booksData) == {[id |-> b.id, title |-> b.title, type |-> "book"] : b \in booksData}

(* ---------------------------- normalizer ------------------------------ *)
\* mutant: citation_id taken from the 0-based index
transformedCitationZeroBased(citation, index) ==
  [citation_id |-> index,
   source_id |-> IF Truthy(citation.source_id) THEN citation.source_id ELSE "",
   source_title |-> OrElse(citation.source_title, "Unknown Source"),
   source_type |-> OrElse(citation.source_type, "book"),
   chunk_lines_from |-> citation.chunk_lines_from,
   chunk_lines_to |-> citation.chunk_lines_to,
   chunk_index |-> IF citation.chunk_index # NoIndex /\ citation.chunk_index # 0
                   THEN citation.chunk_index ELSE index,
   excerpt |-> citation.excerpt]

\* item.citations.map((citation, index) => ({...})), index is 0-based
transformedCitation(citation, index) ==
  [citation_id |-> index + 1,
   source_id |-> IF Truthy(citation.source_id) THEN citation.source_id ELSE "",
   source_title |-> OrElse(citation.source_title, "Unknown Source"),
   source_type |-> OrElse(citation.source_type, "book"),
   chunk_lines_from |-> citation.chunk_lines_from,
   chunk_lines_to |-> citation.chunk_lines_to,
   chunk_index |-> IF citation.chunk_index # NoIndex /\ citation.chunk_index # 0
                   THEN citation.chunk_index ELSE index,
   excerpt |-> citation.excerpt]

userMessage(item) ==
  [id |-> <<item.id, "user">>, session_id |-> item.notebook_id,
   message |-> [type |-> "human", content |-> PlainText(item.user_message)]]

\* mutant: the citations.length > 0 test is lost, an empty citations array is wrapped
transformDbRowWrapsEmptyCitations(item, bookMap) ==
  LET assistantMessage ==
        [id |-> <<item.id, "assistant">>, session_id |-> item.notebook_id,
         message |-> [type |-> "ai",
                      content |-> IF item.citations.json = "array"
                                  THEN StructuredContent(
                                         << [text |-> item.assistant_response,
                                             citation_id |-> NoIndex] >>, <<>>)
                                  ELSE PlainText(item.assistant_response)]]
  IN IF Truthy(item.assistant_response)
     THEN <<userMessage(item), assistantMessage>>
     ELSE <<userMessage(item)>>

\* part_005: transformDbRowToChatMessages(item, bookMap)
transformDbRowToChatMessages(item, bookMap) ==
  LET hasCitations == item.citations.json = "array" /\ Len(item.citations.items) > 0
      transformedCitations ==
        [i \in 1..Len(item.citations.items) |-> transformedCitation(item.citations.items[i], i - 1)]
      segments ==
        << [text |-> item.assistant_response,
            citation_id |-> IF Len(transformedCitations) > 0 THEN 1 ELSE NoIndex] >>
      messageContent ==
        IF hasCitations THEN StructuredContent(segments, transformedCitations)
        ELSE PlainText(item.assistant_response)
      assistantMessage ==
        [id |-> <<item.id, "assistant">>, session_id |-> item.notebook_id,
         message |-> [type |-> "ai", content |-> messageContent]]
  IN IF Truthy(item.assistant_response)
     THEN <<userMessage(item), assistantMessage>>
     ELSE <<userMessage(item)>>

\* useChatMessages.tsx: transformChatMessage(item, bookMap); returns the pair
\* [userMessage, assistantMessage] whatever the row holds
transformChatMessage(item, bookMap) ==
  LET assistantMessage ==
        [id |-> <<item.id, "assistant">>, session_id |-> item.notebook_id,
         message |-> [type |-> "ai",
                      content |-> PlainText(OrElse(item.assistant_response, "No response yet"))]]
  IN <<userMessage(item), assistantMessage>>

\* the messages one row is normalized to by the hook in use
normalize(hook, item, bookMap) ==
  IF hook = "part_005" THEN transformDbRowToChatMessages(item, bookMap)
  ELSE transformChatMessage(item, bookMap)

(* ------------------- legacy normalizer (transformMessage) -------------- *)
\* JS null where an object is expected
NullValue == [isNull |-> TRUE]

\* one citation of a legacy output item
LegacyCitations ==
  [isNull : {FALSE}, chunk_source_id : {"b1", "b9"}, chunk_index : {0},
   chunk_lines_from : {1}, chunk_lines_to : {3}]

\* outputItem.citations: absent, an array, or an ill-typed value (a non-empty string)
LegacyCitationsField ==
  {[json |-> "absent", items |-> <<>>], [json |-> "string", items |-> <<>>],
   [json |-> "array", items |-> <<>>], [json |-> "array", items |-> <<NullValue>>]}
    \cup {[json |-> "array", items |-> <<c>>] : c \in LegacyCitations}
    \cup {[json |-> "array",
           items |-> << [isNull |-> FALSE, chunk_source_id |-> "b1", chunk_index |-> 0,
                         chunk_lines_from |-> 1, chunk_lines_to |-> 3],
                        [isNull |-> FALSE, chunk_source_id |-> "b9", chunk_index |-> 0,
                         chunk_lines_from |-> 1, chunk_lines_to |-> 3] >>]}

\* one element of parsedContent.output: null, or {text?, citations?}
OutputItems ==
  {NullValue} \cup [isNull : {FALSE}, text : {NULL, "T"}, citations : LegacyCitationsField]

\* a content string, described by what JSON.parse makes of it:
\*   "SyntaxError" not JSON ("" included), "null" the text null, "value" a JSON
\*   number/string/array, "object" a JSON object with output absent ("absent"),
\*   not an array ("value") or an array ("array")
ContentStrings ==
  {[typeof |-> "string", empty |-> e, parse |-> "SyntaxError", output |-> "absent", items |-> <<>>]
     : e \in BOOLEAN}
    \cup {[typeof |-> "string", empty |-> FALSE, parse |-> k, output |-> "absent", items |-> <<>>]
            : k \in {"null", "value", "object"}}
    \cup {[typeof |-> "string", empty |-> FALSE, parse |-> "object", output |-> "value",
           items |-> <<>>]}
    \cup {[typeof |-> "string", empty |-> FALSE, parse |-> "object", output |-> "array",
           items |-> its] : its \in SeqsUpTo(OutputItems, MaxOutput)}

\* a content that is already the {segments, citations} object
ContentObject == [typeof |-> "object"]

\* item.message: an object with type and content, a string, or any other shape
LegacyMessages ==
  {[shape |-> "object", type |-> t, content |-> c] : t \in {"human", "ai"},
                                                     c \in ContentStrings \cup {ContentObject}}
    \cup {[shape |-> "string", text |-> "Hi"], [shape |-> "other"]}

LegacyItem(m) == [id |-> 7, session_id |-> NotebookId, message |-> m]

\* sourceMap.get(id)?.title || 'Unknown Source'
sourceTitle(sourceMap, id) ==
  IF \E b \in sourceMap : b.id = id
  THEN OrElse((CHOOSE b \in sourceMap : b.id = id).title, "Unknown Source")
  ELSE "Unknown Source"

\* sourceMap.get(id)?.type || 'pdf'
sourceType(sourceMap, id) ==
  IF \E b \in sourceMap : b.id = id
  THEN OrElse((CHOOSE b \in sourceMap : b.id = id).type, "pdf")
  ELSE "pdf"

\* outputItem.citations && outputItem.citations.length > 0
hasCitations(outputItem) ==
  \/ outputItem.citations.json = "string"
  \/ outputItem.citations.json = "array" /\ Len(outputItem.citations.items) > 0

\* mutant: the counter is incremented for every citation
RECURSIVE legacyCitationsPerCitation(_, _, _)
legacyCitationsPerCitation(cits, citationIdCounter, sourceMap) ==
  IF cits = <<>> THEN <<>>
  ELSE << [citation_id |-> citationIdCounter,
           source_id |-> Head(cits).chunk_source_id,
           source_title |-> sourceTitle(sourceMap, Head(cits).chunk_source_id),
           source_type |-> sourceType(sourceMap, Head(cits).chunk_source_id),
           chunk_lines_from |-> Head(cits).chunk_lines_from,
           chunk_lines_to |-> Head(cits).chunk_lines_to,
           chunk_index |-> Head(cits).chunk_index,
           excerpt |-> <<"Lines", Head(cits).chunk_lines_from, Head(cits).chunk_lines_to>>] >>
       \o legacyCitationsPerCitation(Tail(cits), citationIdCounter + 1, sourceMap)

\* outputItem.citations.forEach((citation) => citations.push({...}))
legacyCitations(cits, citationIdCounter, sourceMap) ==
  [i \in 1..Len(cits) |->
     [citation_id |-> citationIdCounter,
      source_id |-> cits[i].chunk_source_id,
      source_title |-> sourceTitle(sourceMap, cits[i].chunk_source_id),
      source_type |-> sourceType(sourceMap, cits[i].chunk_source_id),
      chunk_lines_from |-> cits[i].chunk_lines_from,
      chunk_lines_to |-> cits[i].chunk_lines_to,
      chunk_index |-> cits[i].chunk_index,
      excerpt |-> <<"Lines", cits[i].chunk_lines_from, cits[i].chunk_lines_to>>]]

\* parsedContent.output.forEach((outputItem) => {...}): the segments and citations
\* built, or threw when an item or a citation cannot be read
RECURSIVE outputForEach(_, _, _, _, _)
outputForEach(output, citationIdCounter, segments, citations, sourceMap) ==
  IF output = <<>> THEN [threw |-> FALSE, segments |-> segments, citations |-> citations]
  ELSE LET outputItem == Head(output)
       IN IF outputItem.isNull THEN [threw |-> TRUE]
          ELSE LET has == hasCitations(outputItem)
                   segment == [text |-> outputItem.text,
                               citation_id |-> IF has THEN citationIdCounter ELSE NoIndex]
               IN IF ~has
                  THEN outputForEach(Tail(output), citationIdCounter,
                                     Append(segments, segment), citations, sourceMap)
                  ELSE IF \/ outputItem.citations.json # "array"
                          \/ \E i \in 1..Len(outputItem.citations.items) :
                               outputItem.citations.items[i].isNull
                       THEN [threw |-> TRUE]
                       ELSE outputForEach(
                              Tail(output), citationIdCounter + 1, Append(segments, segment),
                              citations \o legacyCitations(outputItem.citations.items,
                                                           citationIdCounter, sourceMap),
                              sourceMap)

\* the try block of the AI branch: the transformed message, or threw
tryParse(messageObj, sourceMap) ==
  LET content == messageObj.content
  IN IF content.parse \in {"SyntaxError", "null"} THEN [threw |-> TRUE]
     ELSE IF content.parse = "object" /\ content.output = "array"
          THEN LET built == outputForEach(content.items, 1, <<>>, <<>>, sourceMap)
               IN IF built.threw THEN [threw |-> TRUE]
                  ELSE [threw |-> FALSE,
                        message |-> [type |-> "ai",
                                     content |-> StructuredContent(built.segments,
                                                                   built.citations)]]
          ELSE [threw |-> FALSE, message |-> [type |-> "ai", content |-> PlainText(content)]]

\* the transformedMessage of every branch outside the try block
transformedOutsideTry(item) ==
  IF item.message.shape = "object"
  THEN [type |-> IF item.message.type = "human" THEN "human" ELSE "ai",
        content |-> IF item.message.content.typeof = "string" /\ item.message.content.empty
                    THEN PlainText("Empty message")
                    ELSE PlainText(item.message.content)]
  ELSE IF item.message.shape = "string"
       THEN [type |-> "human", content |-> PlainText(item.message.text)]
       ELSE [type |-> "human", content |-> PlainText("Unable to parse message")]

\* mutant: the try/catch around the parsing is lost
transformMessageWithoutCatch(item, sourceMap) ==
  IF /\ item.message.shape = "object" /\ item.message.type = "ai"
     /\ item.message.content.typeof = "string"
  THEN LET t == tryParse(item.message, sourceMap)
       IN IF t.threw THEN [raised |-> TRUE]
          ELSE [raised |-> FALSE, id |-> item.id, session_id |-> item.session_id,
                message |-> t.message]
  ELSE [raised |-> FALSE, id |-> item.id, session_id |-> item.session_id,
        message |-> transformedOutsideTry(item)]

\* transformMessage(item, sourceMap): what the caller gets
transformMessage(item, sourceMap) ==
  IF /\ item.message.shape = "object" /\ item.message.type = "ai"
     /\ item.message.content.typeof = "string"
  THEN LET t == tryParse(item.message, sourceMap)
       IN [raised |-> FALSE, id |-> item.id, session_id |-> item.session_id,
           message |-> IF t.threw
                       THEN [type |-> "ai", content |-> PlainText(item.message.content)]
                       ELSE t.message]
  ELSE [raised |-> FALSE, id |-> item.id, session_id |-> item.session_id,
        message |-> transformedOutsideTry(item)]

(* ------------------------ useNotebooks helpers ------------------------- *)
\* the books table: id and genre
BooksTable ==
  {[id |-> "b1", genre |-> "science"], [id |-> "b2", genre |-> "science"],
   [id |-> "b3", genre |-> "fiction"]}

\* a text[] | null column
NullColumn == [json |-> "null", items |-> <<>>]
ArrayColumn(items) == [json |-> "array", items |-> items]

\* notebooks.selected_books values
SelectedBooks == {NullColumn} \cup {ArrayColumn(b) : b \in {<<>>, <<"b1">>, <<"b3", "b1">>}}
\* notebooks.selected_genres values
SelectedGenres ==
  {NullColumn} \cup {ArrayColumn(g) : g \in {<<>>, <<"science">>, <<"fiction", "science">>}}

\* one notebooks row
NotebookRows == [selected_books : SelectedBooks, selected_genres : SelectedGenres]

\* column || []
OrEmpty(column) == IF column.json = "array" THEN column.items ELSE <<>>

\* the rows of from('books').select('id').in('genre', genres)
booksInGenres(genres) ==
  {b \in BooksTable : \E i \in 1..Len(genres) : genres[i] = b.genre}

\* an error message, by the substrings the code tests for; hasMessage FALSE when
\* the error carries no message
ErrorMessages ==
  [hasMessage : {TRUE}, fetch : BOOLEAN, JWT : BOOLEAN, auth : BOOLEAN]
    \cup {[hasMessage |-> FALSE, fetch |-> FALSE, JWT |-> FALSE, auth |-> FALSE]}
\* 'Unable to connect to Supabase. Please check your internet connection and
\* Supabase configuration.'
UnableToConnect == [hasMessage |-> TRUE, fetch |-> FALSE, JWT |-> FALSE, auth |-> FALSE]
NoError == [hasMessage |-> FALSE, fetch |-> FALSE, JWT |-> FALSE, auth |-> FALSE, none |-> TRUE]

\* what the queryFn throws for a notebooksError
thrownError(notebooksError) ==
  IF notebooksError.hasMessage /\ notebooksError.fetch THEN UnableToConnect ELSE notebooksError

\* mutant: the genre books already selected are not counted again
totalCountDeduplicated(notebook, genreBooks) ==
  LET selectedBooks == OrEmpty(notebook.selected_books)
  IN Len(selectedBooks)
       + Cardinality({b \in genreBooks : \A i \in 1..Len(selectedBooks) : selectedBooks[i] # b.id})

\* totalCount = selectedBooks.length + genreBookCount, genreBooks being the rows
\* the lookup returned ({} when it returned none or was not made)
totalCount(notebook, genreBooks) ==
  Len(OrEmpty(notebook.selected_books)) + Cardinality(genreBooks)

\* the ways the genre lookups of the notebooks can go: per notebook "skipped"
\* (no genre selected), "answered" or "failed" (data null)
LookupOutcomes(notebooksData) ==
  {o \in [1..Len(notebooksData) -> {"skipped", "answered", "failed"}] :
     \A i \in 1..Len(notebooksData) :
       (o[i] = "skipped") <=> (Len(OrEmpty(notebooksData[i].selected_genres)) = 0)}

\* notebooksWithCounts for given lookup outcomes
notebooksWithCounts(notebooksData, outcomes) ==
  [i \in 1..Len(notebooksData) |->
     [notebook |-> notebooksData[i],
      lookup |-> outcomes[i],
      count |-> totalCount(notebooksData[i],
                           IF outcomes[i] = "answered"
                           THEN booksInGenres(OrEmpty(notebooksData[i].selected_genres))
                           ELSE {})]]

\* mutant: one more retry
retryUpToFour(failureCount, error) ==
  IF error.hasMessage /\ (error.JWT \/ error.auth) THEN FALSE ELSE failureCount < 4

\* retry: (failureCount, error) => ...
retry(failureCount, error) ==
  IF error.hasMessage /\ (error.JWT \/ error.auth) THEN FALSE ELSE failureCount < 3

(* ------------------------ edge function helpers ------------------------ *)
\* the three handlers, by source file
CreateNotebookA == "create-notebook/index.ts"
CreateNotebookB == "part_000"
SendChatMessage == "send-chat-message/index.ts"
EdgeFunctions == {CreateNotebookA, CreateNotebookB, SendChatMessage}

\* request bodies: not JSON, or an object with the two fields the handler
\* destructures (name, user_id for create-notebook; notebookId, message for
\* send-chat-message), each absent (NULL), empty or present
Bodies ==
  {[json |-> "SyntaxError", first |-> NULL, second |-> NULL]}
    \cup [json : {"object"}, first : {NULL, "", "x"}, second : {NULL, "y"}]

Requests == [method : {"OPTIONS", "POST"}, body : Bodies]

\* a response: status with a success body, an error body, or no body
\* const corsHeaders = {...}
corsHeaders ==
  [AccessControlAllowOrigin |-> "*",
   AccessControlAllowHeaders |-> "authorization, x-client-info, apikey, content-type",
   ContentType |-> ""]
\* { ...corsHeaders, 'Content-Type': 'application/json' }
jsonHeaders == [corsHeaders EXCEPT !.ContentType = "application/json"]

NoResponse == [status |-> 0, kind |-> "none"]
\* new Response(null, { headers: corsHeaders }): the status defaults to 200
PreflightResponse == [status |-> 200, kind |-> "empty", headers |-> corsHeaders]
ErrorResponse(message, fallback) ==
  [status |-> 500, kind |-> "error", headers |-> jsonHeaders, error |-> OrElse(message, fallback)]

\* the outcomes of the POST to the remote backend: fetch rejects, a non-OK
\* status, an OK status whose body is not JSON, or an OK status with JSON data
BackendFailures == {"throws", "notOk", "badJson"}
NoBackendData == [json |-> "null", response |-> NULL, message |-> NULL, citations |-> FALSE]
BackendData ==
  {NoBackendData}
    \cup [json : {"object"}, response : {NULL, "A"}, message : {NULL, "M"}, citations : BOOLEAN]

BackendOutcomes ==
  {[ok |-> FALSE, failure |-> f, data |-> NoBackendData] : f \in BackendFailures}
    \cup {[ok |-> TRUE, failure |-> "", data |-> d] : d \in BackendData}

\* the message of the error thrown for a failed backend call
backendErrorMessage(failure) ==
  IF failure = "notOk" THEN "Backend API error: 503"
  ELSE IF failure = "badJson" THEN "Unexpected token" ELSE ""

\* the row create-notebook inserts
NotebookInsert(name, user_id) ==
  [name |-> name, user_id |-> user_id, selected_books |-> <<>>, selected_genres |-> <<>>]

\* the notebooks rows send-chat-message may find; selected_books may hold an id
\* twice (addBookToNotebook only filters against the stored list)
EdgeNotebooks ==
  [selected_books : {NullColumn} \cup {ArrayColumn(b) : b \in {<<>>, <<"b1">>, <<"b3", "b1">>,
                                                               <<"b1", "b1">>}},
   selected_genres : SelectedGenres,
   user_id : {"y"}]

\* the ids of from('books').select('id').in('genre', genres), in table order
genreBookIds(genres) ==
  LET table == << [id |-> "b1", genre |-> "science"], [id |-> "b2", genre |-> "science"],
                  [id |-> "b3", genre |-> "fiction"] >>
      F[i \in 0..Len(table)] ==
        IF i = 0 THEN <<>>
        ELSE IF \E g \in 1..Len(genres) : genres[g] = table[i].genre
             THEN Append(F[i - 1], table[i].id)
             ELSE F[i - 1]
  IN F[Len(table)]

\* [...new Set(ids)]: first occurrences, in order
RECURSIVE spreadSet(_, _)
spreadSet(ids, seen) ==
  IF ids = <<>> THEN <<>>
  ELSE IF Head(ids) \in seen THEN spreadSet(Tail(ids), seen)
       ELSE <<Head(ids)>> \o spreadSet(Tail(ids), seen \cup {Head(ids)})

\* mutant: the two lists are concatenated
mergeGenreBooksByConcat(allBookIds, lookupOk, ids) ==
  IF lookupOk THEN allBookIds \o ids ELSE allBookIds

\* if (!genreBooksError && genreBooks) allBookIds = [...new Set([...allBookIds, ...genreBookIds])]
mergeGenreBooks(allBookIds, lookupOk, ids) ==
  IF lookupOk THEN spreadSet(allBookIds \o ids, {}) ELSE allBookIds

\* the row send-chat-message inserts
ChatInsert(notebookId, message, backendData) ==
  [notebook_id |-> notebookId, user_message |-> message,
   assistant_response |-> OrElse(backendData.response, OrElse(backendData.message, "No response")),
   citations |-> backendData.citations]

(* ------------------- useBooks / useSources helpers --------------------- *)
\* the mutations on a notebook's selection, by the hook that defines them
AddBooks == "useBooks.addBookToNotebook"                \* useBooks.tsx:46-94
RemoveBook == "useBooks.removeBookFromNotebook"         \* useBooks.tsx:96-140
AddOneBook == "useBooks.addBookToNotebook(bookId)"      \* useBooks.tsx:194-229
RemoveOneBook == "useBooks.removeBookFromNotebook(bookId)"  \* useBooks.tsx:231-264
SourcesRemove == "useSources.removeFromNotebook"        \* part_003:57-98

\* a call: the mutation and its arguments, an absent argument being <<>>
MutationCall(fn, books, genres) == [fn |-> fn, books |-> books, genres |-> genres]

\* the calls made, each with duplicate-free lists
MutationCalls ==
  {MutationCall(AddBooks, <<"b1">>, <<>>), MutationCall(AddBooks, <<"b2">>, <<>>),
   MutationCall(AddBooks, <<>>, <<"science">>),
   MutationCall(AddBooks, <<"b2", "b1">>, <<"science">>)}
    \cup {MutationCall(RemoveBook, <<"b1">>, <<>>),
          MutationCall(RemoveBook, <<>>, <<"science">>),
          MutationCall(AddOneBook, <<"b1">>, <<>>),
          MutationCall(RemoveOneBook, <<"b2">>, <<>>),
          MutationCall(SourcesRemove, <<"b1">>, <<>>)}

IsRemoval(fn) == fn \in {RemoveBook, RemoveOneBook, SourcesRemove}

\* array.filter(x => keep(x))
RECURSIVE filterOut(_, _)
filterOut(array, dropped) ==
  IF array = <<>> THEN <<>>
  ELSE IF Head(array) \in dropped THEN filterOut(Tail(array), dropped)
       ELSE <<Head(array)>> \o filterOut(Tail(array), dropped)

\* mutant: the ids given are appended without looking at the current list
updatedUnfiltered(fn, current, given) ==
  IF IsRemoval(fn) THEN filterOut(current, {given[i] : i \in 1..Len(given)})
  ELSE current \o given

\* updatedBooks / updatedGenres: the current list with the given ids added
\* (those not in it already) or removed
updated(fn, current, given) ==
  IF IsRemoval(fn) THEN filterOut(current, {given[i] : i \in 1..Len(given)})
  ELSE current \o filterOut(given, {current[i] : i \in 1..Len(current)})

\* the single-book add throws 'Book already added to notebook'
alreadyAdded(call, currentBooks) ==
  call.fn = AddOneBook /\ \E i \in 1..Len(currentBooks) : currentBooks[i] = call.books[1]

\* the columns the mutation's update writes
writesGenres(fn) == fn \in {AddBooks, RemoveBook}

\* the query keys the mutation's onSuccess invalidates; ['notebooks'] matches
\* the notebooks list ['notebooks', userId] by prefix
invalidatedOnSuccess(fn) ==
  IF fn = SourcesRemove THEN {"notebook-books"} ELSE {"books", "notebooks"}

(* -------------------------- AuthContext helpers ------------------------ *)
UserIds == {"u1", "u2"}
AccessTokens == {"t1", "t2"}
\* a User, and the null of `User | null`
User(id) == [id |-> id]
NoUser == User(NULL)
\* a Session (it carries its user), and the null of `Session | null`
Session(id, access_token) == [user |-> User(id), access_token |-> access_token]
NoSession == [user |-> NoUser, access_token |-> NULL]
Sessions == {Session(id, t) : id \in UserIds, t \in AccessTokens}

\* the events the auth client emits and the session each carries
AuthEvents ==
  {[event |-> "SIGNED_OUT", session |-> NoSession]}
    \cup [event : {"SIGNED_IN", "SIGNED_UP", "TOKEN_REFRESHED", "USER_UPDATED"}, session : Sessions]
NoEvent == [event |-> "none", session |-> NoSession]

\* what supabase.auth.getSession() answers: a session or null, an error, or it throws
GetSessionOutcomes ==
  [kind : {"session"}, session : Sessions \cup {NoSession}]
    \cup [kind : {"session_not_found", "error", "throws"}, session : {NoSession}]

\* what supabase.auth.signOut() answers
SignOutOutcomes == {"ok", "session_not_found", "403", "error", "throws"}

(* ------------------------ AddBooksDialog helpers ----------------------- *)
\* useAllBooks().booksByGenre: the book ids of each available genre
booksByGenre == [science |-> {"b1", "b2"}, history |-> {"b3"}]
availableGenres == {"science", "history"}
genreIds(genre) == IF genre = "science" THEN booksByGenre.science ELSE booksByGenre.history
AllBookIds == UNION {genreIds(genre) : genre \in availableGenres}
genreOf(bookId) == CHOOSE genre \in availableGenres : bookId \in genreIds(genre)

(* --------------------------- cache helpers ---------------------------- *)
\* a JS array held where a message object is expected (it has no id field)
JSArray(s) == [array |-> s]
\* msg.id of a cache element
idOf(e) == IF "id" \in DOMAIN e THEN e.id ELSE UNDEFINED
\* the message objects a cache element holds
messagesOf(e) == IF "id" \in DOMAIN e THEN <<e>> ELSE e.array

RECURSIVE allMessages(_)
allMessages(c) == IF c = <<>> THEN <<>> ELSE messagesOf(Head(c)) \o allMessages(Tail(c))

\* part_005: data.flatMap((item) => transformDbRowToChatMessages(item, bookMap))
RECURSIVE flatMapRows(_, _)
flatMapRows(data, bookMap) ==
  IF data = <<>> THEN <<>>
  ELSE transformDbRowToChatMessages(Head(data), bookMap) \o flatMapRows(Tail(data), bookMap)

\* useChatMessages.tsx: data.map((item) => transformChatMessage(item, bookMap))
mapRows(data, bookMap) ==
  [i \in 1..Len(data) |-> JSArray(transformChatMessage(data[i], bookMap))]

\* the queryFn's return value
queryFnResult(h, data, bookMap) ==
  IF h = "part_005" THEN flatMapRows(data, bookMap) ELSE mapRows(data, bookMap)

\* mutant: the existing-id filter is lost
mergeWithoutFilter(oldMessages, newMsgs) == oldMessages \o newMsgs

\* mutant: new messages are put in front of the cached ones
mergeInFront(oldMessages, newMsgs) ==
  LET existingIds == {idOf(oldMessages[i]) : i \in 1..Len(oldMessages)}
      notExisting(msg) == idOf(msg) \notin existingIds
  IN SelectSeq(newMsgs, notExisting) \o oldMessages

\* part_005: the setQueryData callback of the INSERT handler
mergeNewMessages(oldMessages, newMsgs) ==
  LET existingIds == {idOf(oldMessages[i]) : i \in 1..Len(oldMessages)}
      notExisting(msg) == idOf(msg) \notin existingIds
      newMessagesToAdd == SelectSeq(newMsgs, notExisting)
  IN IF Len(newMessagesToAdd) = 0 THEN oldMessages ELSE oldMessages \o newMessagesToAdd

\* useChatMessages.tsx: the setQueryData callback of the INSERT handler;
\* newMessage is what transformChatMessage returned
mergeNewMessage(oldMessages, newMessage) ==
  LET messageExists == \E i \in 1..Len(oldMessages) : idOf(oldMessages[i]) = idOf(newMessage)
  IN IF messageExists THEN oldMessages ELSE Append(oldMessages, newMessage)

\* what the INSERT handler hands to its merge callback
handlerNewMessages(h, payload, bookMap) ==
  IF h = "part_005" THEN transformDbRowToChatMessages(payload, bookMap)
  ELSE <<JSArray(transformChatMessage(payload, bookMap))>>

\* the merge callback of the hook in use
pushMerge(h, oldMessages, newMsgs) ==
  IF h = "part_005" THEN mergeNewMessages(oldMessages, newMsgs)
  ELSE mergeNewMessage(oldMessages, newMsgs[1])

\* row contents written by the writers of chat_messages
OneCitation ==
  [json |-> "array",
   items |-> << [source_id |-> "b1", source_title |-> "Book", source_type |-> NULL,
                 chunk_index |-> NoIndex, chunk_lines_from |-> 1, chunk_lines_to |-> 3,
                 excerpt |-> NULL] >>]
WrittenContents ==
  { <<"Hi", "", [json |-> "null", items |-> <<>>]>>,
    <<"Q", "A", OneCitation>> }

VARIABLES
  hook,          \* which revision of the useChatMessages hook runs
  item,          \* normalizer: the row handed to the transform
  messages,      \* normalizer: the transform's return value
  normPc,        \* normalizer: "off", "input" before the call, "done" after
  bookMap,       \* normalizer: the lookup handed to the transform
  chat_messages, \* store: the notebook's rows, ascending timestamp
  feed,          \* realtime: INSERT payloads emitted for the notebook
  pushes,        \* realtime: INSERT events delivered so far, repeats included
  delivered,     \* realtime: the first `delivered` rows' events were delivered
  handlers,      \* bag of payloads whose INSERT handler awaits the books lookup
  cache,         \* query data of ['chat-messages', notebookId]
  queryPc,       \* queryFn: "idle", "books" (rows read, books requested), "error"
  data,          \* queryFn: the rows the select returned
  isInvalidated, \* the query was invalidated and not fetched again yet
  deleteStatus,  \* deleteChatHistory: idle, deleted (store done), success, error
  payload,       \* INSERT handler that merged last: payload.new
  oldMessages,   \* its merge callback's argument
  newMessages,   \* its transformed payload
  legacyItem,    \* transformMessage: the item handed to it
  legacySources, \* transformMessage: its sourceMap
  legacyOut,     \* transformMessage: what the caller got, NoOutcome before the call
  user,          \* useNotebooks: the signed-in user, NULL when none
  notebooks,     \* the user's notebooks rows
  nbPc,          \* the notebooks query: "off", "idle", "fetching", "failed", "success", "error"
  failureCount,  \* the query's failure count
  nbError,       \* the error the queryFn threw last, NoError when none
  nbAttempts,    \* how many times the queryFn has run
  nbData,        \* the query's data once it succeeded
  edgeFn,        \* edge function: which handler serves the request
  req,           \* its request
  edgePc,        \* where the handler is: "off", "received", then its awaits, "done"
  edgeLog,       \* what it has done, in order: "insert", "insert failed", "backend ok",
                 \* "backend failed"
  edgeRows,      \* the rows it has inserted
  edgeNotebook,  \* send-chat-message: the notebook it looked up
  genreLookup,   \* send-chat-message: "none", "skipped", "answered" or "failed"
  allBookIds,    \* send-chat-message: the resolved book ids
  backendData,   \* the JSON the backend answered
  response,      \* the response returned, NoResponse before
  selection,     \* the notebook's stored selected_books and selected_genres
  mutations,     \* the mutations that overlap: each one's call, pc and what it read
  lastWrite,     \* the call and the snapshot of the mutation that wrote last
  removed,       \* the ids whose latest written request was a removal
  selectedGenres,            \* AddBooksDialog: the genres selected
  selectedBookIds,           \* AddBooksDialog: the books selected
  currentlySelectedBookIds,  \* AddBooksDialog: the books already in the notebook
  addBooksArgs,  \* AddBooksDialog: the arguments of its last addBooksToNotebook call
  authUser,      \* AuthProvider: user
  authSession,   \* AuthProvider: session
  authLoading,   \* AuthProvider: loading
  authError,     \* AuthProvider: error
  lastUserIdRef, \* AuthProvider: lastUserIdRef.current
  mountedRef,    \* AuthProvider: mountedRef.current
  initPc,        \* initializeAuth: "off", "getSession", "localSignOut", "done"
  profiles,      \* SIGNED_UP callbacks that await createUserProfile
  signOutPc,     \* signOut(): "idle", "remote", "local", "localCaught"
  signOutResult, \* how the last signOut() call ended: "none" while it runs, "successful",
                 \* "already invalid", "cleared locally", "local clear failed" or "threw"
  signedOut,     \* signOut() cleared the state and no SIGNED_IN / SIGNED_UP came since
  lastEvent,     \* the most recent auth event, NoEvent once anything else set the state
  setAfterUnmount, \* a state setter was called after the cleanup ran
  sendPc,        \* sendMessage: "off", "idle", "inserted", "persisted", "success", "error"
  sentId,        \* sendMessage: the id of the row written for it, 0 before
  sentReply,     \* sendMessage: the assistant's reply stored for it, NULL before
  channel        \* the realtime channel of the hook: "none", "subscribed", "removed"

legacyVars == <<legacyItem, legacySources, legacyOut>>
nbVars == <<user, notebooks, nbPc, failureCount, nbError, nbAttempts, nbData>>
edgeVars == <<edgeFn, req, edgePc, edgeLog, edgeRows, edgeNotebook, genreLookup, allBookIds,
              backendData, response>>
booksVars == <<selection, mutations, lastWrite, removed>>
dialogVars == <<selectedGenres, selectedBookIds, currentlySelectedBookIds, addBooksArgs>>
authVars == <<authUser, authSession, authLoading, authError, lastUserIdRef, mountedRef, initPc,
              profiles, signOutPc, signOutResult, signedOut, lastEvent, setAfterUnmount>>
sendVars == <<sendPc, sentId, sentReply, channel>>
lateVars == <<booksVars, dialogVars, authVars, sendVars>>
extVars == <<legacyVars, nbVars, edgeVars, lateVars>>

NoOutcome == [raised |-> FALSE, id |-> 0]
LegacyOff ==
  /\ legacyItem = LegacyItem([shape |-> "other"])
  /\ legacySources = {}
  /\ legacyOut = NoOutcome

NbOff ==
  /\ user = NULL
  /\ notebooks = <<>>
  /\ nbPc = "off"
  /\ failureCount = 0
  /\ nbError = NoError
  /\ nbAttempts = 0
  /\ nbData = <<>>

NoNotebook == [selected_books |-> NullColumn, selected_genres |-> NullColumn, user_id |-> NULL]
EdgeOff ==
  /\ edgeFn = SendChatMessage
  /\ req = [method |-> "OPTIONS", body |-> [json |-> "SyntaxError", first |-> NULL, second |-> NULL]]
  /\ edgePc = "off"
  /\ edgeLog = <<>>
  /\ edgeRows = <<>>
  /\ edgeNotebook = NoNotebook
  /\ genreLookup = "none"
  /\ allBookIds = <<>>
  /\ backendData = NoBackendData
  /\ response = NoResponse

\* the mutations in flight
Slots == 1..MaxMutations
Selection(books, genres) == [selected_books |-> books, selected_genres |-> genres]
NoCall == MutationCall("none", <<>>, <<>>)
IdleMutation ==
  [call |-> NoCall, pc |-> "idle", snapshot |-> Selection(<<>>, <<>>), invalidated |-> {}]
NoWrite == [call |-> NoCall, snapshot |-> Selection(<<>>, <<>>)]
BooksOff ==
  /\ selection = Selection(<<>>, <<>>)
  /\ mutations = [m \in Slots |-> [IdleMutation EXCEPT !.pc = "off"]]
  /\ lastWrite = NoWrite
  /\ removed = {}

NoArgs == [called |-> FALSE, bookIds |-> {}, genres |-> {}]
DialogOff ==
  /\ selectedGenres = {}
  /\ selectedBookIds = {}
  /\ currentlySelectedBookIds = {"closed"}
  /\ addBooksArgs = NoArgs

AuthOff ==
  /\ authUser = NoUser
  /\ authSession = NoSession
  /\ authLoading = TRUE
  /\ authError = NULL
  /\ lastUserIdRef = NULL
  /\ mountedRef = FALSE
  /\ initPc = "off"
  /\ profiles = 0
  /\ signOutPc = "idle"
  /\ signOutResult = "none"
  /\ signedOut = FALSE
  /\ lastEvent = NoEvent
  /\ setAfterUnmount = FALSE

SendOff ==
  /\ sendPc = "off"
  /\ sentId = 0
  /\ sentReply = NULL
  /\ channel = "none"

LateOff == BooksOff /\ DialogOff /\ AuthOff /\ SendOff

\* what the specifications of the other components hold still
ExtOff == LegacyOff /\ NbOff /\ EdgeOff /\ LateOff

normVars == <<item, messages, normPc, bookMap>>
storeVars == <<chat_messages, feed>>
queryVars == <<queryPc, data, isInvalidated>>
handlerLocals == <<payload, oldMessages, newMessages>>
syncVars == <<chat_messages, feed, pushes, delivered, handlers, cache, queryPc, data,
              isInvalidated, deleteStatus, payload, oldMessages, newMessages>>

vars == <<hook, extVars, item, messages, normPc, bookMap, chat_messages, feed, pushes, delivered, handlers, cache,
          queryPc, data, isInvalidated, deleteStatus, payload, oldMessages, newMessages>>

NoItem == ChatRow(0, "Hi", NULL, [json |-> "null", items |-> <<>>])

\* the handler's locals are gone once its callback has returned
HandlerReturned == payload' = NoItem /\ oldMessages' = <<>> /\ newMessages' = <<>>

InitSync ==
  /\ chat_messages = <<>>
  /\ feed = {}
  /\ pushes = 0
  /\ delivered = 0
  /\ handlers = EmptyBag
  /\ cache = <<>>
  /\ queryPc = "idle"
  /\ data = <<>>
  /\ isInvalidated = FALSE
  /\ deleteStatus = "idle"
  /\ payload = NoItem
  /\ oldMessages = <<>>
  /\ newMessages = <<>>

\* the chat hook's state while another component is examined
ChatOff ==
  /\ hook = "part_005"
  /\ item = NoItem
  /\ messages = <<>>
  /\ normPc = "off"
  /\ bookMap = {}
  /\ InitSync

(* --------------------- normalizer on its own --------------------------- *)
InitNorm ==
  /\ hook \in Hooks
  /\ item \in {ChatRow(1, um, ar, cit) : um \in UserMessages, ar \in AssistantResponses,
                                        cit \in CitationsColumn}
  /\ messages = <<>>
  /\ normPc = "input"
  /\ bookMap \in {BookMap(booksData) : booksData \in BooksData}
  /\ InitSync
  /\ ExtOff

Transform ==
  /\ normPc = "input"
  /\ messages' = normalize(hook, item, bookMap)
  /\ normPc' = "done"
  /\ UNCHANGED <<hook, extVars, item, bookMap>>
  /\ UNCHANGED syncVars

NextNorm == Transform

SpecNorm == InitNorm /\ [][NextNorm]_vars

(* ------------------ legacy normalizer on its own ----------------------- *)
InitLegacy ==
  /\ ChatOff
  /\ NbOff
  /\ EdgeOff
  /\ LateOff
  /\ legacyItem \in {LegacyItem(m) : m \in LegacyMessages}
  /\ legacySources \in {BookMap(booksData) : booksData \in BooksData}
  /\ legacyOut = NoOutcome

TransformLegacy ==
  /\ legacyOut = NoOutcome
  /\ legacyOut' = transformMessage(legacyItem, legacySources)
  /\ UNCHANGED <<hook, normVars, syncVars, legacyItem, legacySources, nbVars, edgeVars, lateVars>>

NextLegacy == TransformLegacy

SpecLegacy == InitLegacy /\ [][NextLegacy]_vars

(* ------------------------- useNotebooks query -------------------------- *)
InitNotebooks ==
  /\ ChatOff
  /\ LegacyOff
  /\ EdgeOff
  /\ LateOff
  /\ user \in {NULL, "u1"}
  /\ notebooks \in SeqsUpTo(NotebookRows, MaxNotebooks)
  /\ nbPc = "idle"
  /\ failureCount = 0
  /\ nbError = NoError
  /\ nbAttempts = 0
  /\ nbData = <<>>

\* the query starts its first fetch
NbFetch ==
  /\ nbPc = "idle"
  /\ nbPc' = "fetching"
  /\ UNCHANGED <<hook, normVars, syncVars, legacyVars, edgeVars, lateVars, user, notebooks, failureCount,
                 nbError, nbAttempts, nbData>>

\* a run of the queryFn in which the notebooks select fails
NbQueryFnThrows(notebooksError) ==
  /\ nbPc = "fetching"
  /\ user # NULL
  /\ nbAttempts' = nbAttempts + 1
  /\ nbError' = thrownError(notebooksError)
  /\ nbPc' = "failed"
  /\ UNCHANGED <<hook, normVars, syncVars, legacyVars, edgeVars, lateVars, user, notebooks, failureCount, nbData>>

\* a run of the queryFn that returns: [] without a user, else the rows with counts
NbQueryFnReturns ==
  /\ nbPc = "fetching"
  /\ nbAttempts' = nbAttempts + 1
  /\ IF user = NULL
     THEN nbData' = <<>>
     ELSE \E outcomes \in LookupOutcomes(notebooks) :
            nbData' = notebooksWithCounts(notebooks, outcomes)
  /\ nbPc' = "success"
  /\ UNCHANGED <<hook, normVars, syncVars, legacyVars, edgeVars, lateVars, user, notebooks, failureCount, nbError>>

\* the query asks retry(failureCount, error) what to do with the failure
NbRetry ==
  /\ nbPc = "failed"
  /\ IF retry(failureCount, nbError)
     THEN failureCount' = failureCount + 1 /\ nbPc' = "fetching"
     ELSE failureCount' = failureCount /\ nbPc' = "error"
  /\ UNCHANGED <<hook, normVars, syncVars, legacyVars, edgeVars, lateVars, user, notebooks, nbError, nbAttempts,
                 nbData>>

NextNotebooks ==
  \/ NbFetch
  \/ \E notebooksError \in ErrorMessages : NbQueryFnThrows(notebooksError)
  \/ NbQueryFnReturns
  \/ NbRetry

SpecNotebooks == InitNotebooks /\ [][NextNotebooks]_vars

(* --------------------------- edge functions ---------------------------- *)
restVars == <<hook, normVars, syncVars, legacyVars, nbVars, lateVars>>

InitEdge ==
  /\ ChatOff
  /\ LegacyOff
  /\ NbOff
  /\ LateOff
  /\ edgeFn \in EdgeFunctions
  /\ req \in Requests
  /\ edgePc = "received"
  /\ edgeLog = <<>>
  /\ edgeRows = <<>>
  /\ edgeNotebook = NoNotebook
  /\ genreLookup = "none"
  /\ allBookIds = <<>>
  /\ backendData = NoBackendData
  /\ response = NoResponse

\* the handler returns r
Respond(r) == response' = r /\ edgePc' = "done"

\* await req.json() and the check of the two required fields: "" when they
\* pass, else the message of the error thrown
receiveError(body, required) ==
  IF body.json = "SyntaxError" THEN "Unexpected token"
  ELSE IF ~Truthy(body.first) \/ ~Truthy(body.second) THEN required ELSE ""

\* mutant: the body is read before the method is looked at
EdgeOptionsAfterBody ==
  /\ edgePc = "received"
  /\ req.method = "OPTIONS"
  /\ IF req.body.json = "SyntaxError"
     THEN Respond(ErrorResponse("Unexpected token", "Failed"))
     ELSE Respond(PreflightResponse)
  /\ UNCHANGED <<restVars, edgeFn, req, edgeLog, edgeRows, edgeNotebook, genreLookup,
                 allBookIds, backendData>>

\* if (req.method === 'OPTIONS') return new Response(null, { headers: corsHeaders })
EdgeOptions ==
  /\ edgePc = "received"
  /\ req.method = "OPTIONS"
  /\ Respond(PreflightResponse)
  /\ UNCHANGED <<restVars, edgeFn, req, edgeLog, edgeRows, edgeNotebook, genreLookup,
                 allBookIds, backendData>>

\* mutant: a body that fails validation is answered 400
CreateReceiveBadRequest ==
  /\ edgePc = "received"
  /\ req.method # "OPTIONS"
  /\ edgeFn \in {CreateNotebookA, CreateNotebookB}
  /\ LET e == receiveError(req.body, "name and user_id are required")
     IN IF e # ""
        THEN Respond([status |-> 400, kind |-> "error", headers |-> jsonHeaders, error |-> e])
        ELSE /\ edgePc' = IF edgeFn = CreateNotebookA THEN "insert" ELSE "backend"
             /\ response' = response
  /\ UNCHANGED <<restVars, edgeFn, req, edgeLog, edgeRows, edgeNotebook, genreLookup,
                 allBookIds, backendData>>

\* create-notebook, either variant: body parsed and validated
CreateReceive ==
  /\ edgePc = "received"
  /\ req.method # "OPTIONS"
  /\ edgeFn \in {CreateNotebookA, CreateNotebookB}
  /\ LET e == receiveError(req.body, "name and user_id are required")
     IN IF e # ""
        THEN Respond(ErrorResponse(e, "Failed to create notebook"))
        ELSE /\ edgePc' = IF edgeFn = CreateNotebookA THEN "insert" ELSE "backend"
             /\ response' = response
  /\ UNCHANGED <<restVars, edgeFn, req, edgeLog, edgeRows, edgeNotebook, genreLookup,
                 allBookIds, backendData>>

\* variant A: the insert, first
CreateAInsert(ok) ==
  /\ edgeFn = CreateNotebookA
  /\ edgePc = "insert"
  /\ IF ok
     THEN /\ edgeRows' = Append(edgeRows, NotebookInsert(req.body.first, req.body.second))
          /\ edgeLog' = Append(edgeLog, "insert")
          /\ edgePc' = "backend"
          /\ response' = response
     ELSE /\ Respond(ErrorResponse("Failed to create notebook: duplicate key",
                                   "Failed to create notebook"))
          /\ edgeLog' = Append(edgeLog, "insert failed")
          /\ edgeRows' = edgeRows
  /\ UNCHANGED <<restVars, edgeFn, req, edgeNotebook, genreLookup, allBookIds, backendData>>

\* mutant: variant A fails the request when the backend call fails
CreateABackendBlocking(outcome) ==
  /\ edgeFn = CreateNotebookA
  /\ edgePc = "backend"
  /\ edgeLog' = Append(edgeLog, IF outcome.ok THEN "backend ok" ELSE "backend failed")
  /\ backendData' = IF outcome.ok THEN outcome.data ELSE NoBackendData
  /\ IF outcome.ok
     THEN Respond([status |-> 200, kind |-> "success", headers |-> jsonHeaders, success |-> TRUE,
                   row |-> edgeRows[Len(edgeRows)], backend_response |-> backendData'])
     ELSE Respond(ErrorResponse(backendErrorMessage(outcome.failure), "Failed to create notebook"))
  /\ UNCHANGED <<restVars, edgeFn, req, edgeRows, edgeNotebook, genreLookup, allBookIds>>

\* variant A: the backend call inside its own try, then the 200 response
CreateABackend(outcome) ==
  /\ edgeFn = CreateNotebookA
  /\ edgePc = "backend"
  /\ edgeLog' = Append(edgeLog, IF outcome.ok THEN "backend ok" ELSE "backend failed")
  /\ backendData' = IF outcome.ok THEN outcome.data ELSE NoBackendData
  /\ Respond([status |-> 200, kind |-> "success", headers |-> jsonHeaders, success |-> TRUE,
              row |-> edgeRows[Len(edgeRows)], backend_response |-> backendData'])
  /\ UNCHANGED <<restVars, edgeFn, req, edgeRows, edgeNotebook, genreLookup, allBookIds>>

\* mutant: variant B goes on to the insert whatever the backend answered
CreateBBackendNonBlocking(outcome) ==
  /\ edgeFn = CreateNotebookB
  /\ edgePc = "backend"
  /\ edgeLog' = Append(edgeLog, IF outcome.ok THEN "backend ok" ELSE "backend failed")
  /\ backendData' = IF outcome.ok THEN outcome.data ELSE NoBackendData
  /\ edgePc' = "insert"
  /\ response' = response
  /\ UNCHANGED <<restVars, edgeFn, req, edgeRows, edgeNotebook, genreLookup, allBookIds>>

\* variant B: the backend call, first
CreateBBackend(outcome) ==
  /\ edgeFn = CreateNotebookB
  /\ edgePc = "backend"
  /\ edgeLog' = Append(edgeLog, IF outcome.ok THEN "backend ok" ELSE "backend failed")
  /\ IF ~outcome.ok
     THEN /\ Respond(ErrorResponse(backendErrorMessage(outcome.failure), "Failed to create notebook"))
          /\ backendData' = backendData
     ELSE /\ backendData' = outcome.data
          /\ edgePc' = "insert"
          /\ response' = response
  /\ UNCHANGED <<restVars, edgeFn, req, edgeRows, edgeNotebook, genreLookup, allBookIds>>

\* variant B: the insert, then the 200 response
CreateBInsert(ok) ==
  /\ edgeFn = CreateNotebookB
  /\ edgePc = "insert"
  /\ IF ok
     THEN /\ edgeRows' = Append(edgeRows, NotebookInsert(req.body.first, req.body.second))
          /\ edgeLog' = Append(edgeLog, "insert")
          /\ Respond([status |-> 200, kind |-> "success", headers |-> jsonHeaders, success |-> TRUE,
                      row |-> edgeRows'[Len(edgeRows')], backend_response |-> backendData])
     ELSE /\ Respond(ErrorResponse("Failed to create notebook: duplicate key",
                                   "Failed to create notebook"))
          /\ edgeLog' = Append(edgeLog, "insert failed")
          /\ edgeRows' = edgeRows
  /\ UNCHANGED <<restVars, edgeFn, req, edgeNotebook, genreLookup, allBookIds, backendData>>

\* send-chat-message: body parsed and validated
SendReceive ==
  /\ edgePc = "received"
  /\ req.method # "OPTIONS"
  /\ edgeFn = SendChatMessage
  /\ LET e == receiveError(req.body, "notebookId and message are required")
     IN IF e # ""
        THEN Respond(ErrorResponse(e, "Failed to process chat message"))
        ELSE edgePc' = "notebook" /\ response' = response
  /\ UNCHANGED <<restVars, edgeFn, req, edgeLog, edgeRows, edgeNotebook, genreLookup,
                 allBookIds, backendData>>

\* the notebook lookup fails
SendNotebookError ==
  /\ edgeFn = SendChatMessage
  /\ edgePc = "notebook"
  /\ Respond(ErrorResponse("Failed to fetch notebook: no rows", "Failed to process chat message"))
  /\ UNCHANGED <<restVars, edgeFn, req, edgeLog, edgeRows, edgeNotebook, genreLookup,
                 allBookIds, backendData>>

\* the notebook lookup answers: allBookIds = notebook.selected_books || []
SendNotebookFound(notebook) ==
  /\ edgeFn = SendChatMessage
  /\ edgePc = "notebook"
  /\ edgeNotebook' = notebook
  /\ allBookIds' = OrEmpty(notebook.selected_books)
  /\ IF Len(OrEmpty(notebook.selected_genres)) > 0
     THEN edgePc' = "genres" /\ genreLookup' = genreLookup
     ELSE edgePc' = "backend" /\ genreLookup' = "skipped"
  /\ UNCHANGED <<restVars, edgeFn, req, edgeLog, edgeRows, backendData, response>>

\* the lookup of the books of the selected genres
SendGenreLookup(lookupOk) ==
  /\ edgeFn = SendChatMessage
  /\ edgePc = "genres"
  /\ allBookIds' = mergeGenreBooks(allBookIds, lookupOk,
                                   genreBookIds(OrEmpty(edgeNotebook.selected_genres)))
  /\ genreLookup' = IF lookupOk THEN "answered" ELSE "failed"
  /\ edgePc' = "backend"
  /\ UNCHANGED <<restVars, edgeFn, req, edgeLog, edgeRows, edgeNotebook, backendData, response>>

\* the POST to the backend's /api/chat
SendBackend(outcome) ==
  /\ edgeFn = SendChatMessage
  /\ edgePc = "backend"
  /\ edgeLog' = Append(edgeLog, IF outcome.ok THEN "backend ok" ELSE "backend failed")
  /\ IF ~outcome.ok
     THEN /\ Respond(ErrorResponse(backendErrorMessage(outcome.failure),
                                   "Failed to process chat message"))
          /\ backendData' = backendData
     ELSE /\ backendData' = outcome.data
          /\ edgePc' = "persist"
          /\ response' = response
  /\ UNCHANGED <<restVars, edgeFn, req, edgeRows, edgeNotebook, genreLookup, allBookIds>>

\* mutant: the insert's error is not looked at
SendPersistIgnoringError(ok) ==
  /\ edgeFn = SendChatMessage
  /\ edgePc = "persist"
  /\ IF backendData.json = "null"
     THEN /\ Respond(ErrorResponse("Cannot read properties of null",
                                   "Failed to process chat message"))
          /\ UNCHANGED <<edgeRows, edgeLog>>
     ELSE /\ IF ok
             THEN /\ edgeRows' = Append(edgeRows,
                                        ChatInsert(req.body.first, req.body.second, backendData))
                  /\ edgeLog' = Append(edgeLog, "insert")
             ELSE edgeLog' = Append(edgeLog, "insert failed") /\ edgeRows' = edgeRows
          /\ Respond([status |-> 200, kind |-> "success", headers |-> jsonHeaders, success |-> TRUE,
                      row |-> ChatInsert(req.body.first, req.body.second, backendData),
                      backend_response |-> backendData])
  /\ UNCHANGED <<restVars, edgeFn, req, edgeNotebook, genreLookup, allBookIds, backendData>>

\* the insert into chat_messages, then the 200 response
SendPersist(ok) ==
  /\ edgeFn = SendChatMessage
  /\ edgePc = "persist"
  /\ IF backendData.json = "null"
     THEN /\ Respond(ErrorResponse("Cannot read properties of null",
                                   "Failed to process chat message"))
          /\ UNCHANGED <<edgeRows, edgeLog>>
     ELSE IF ok
          THEN /\ edgeRows' = Append(edgeRows,
                                     ChatInsert(req.body.first, req.body.second, backendData))
               /\ edgeLog' = Append(edgeLog, "insert")
               /\ Respond([status |-> 200, kind |-> "success", headers |-> jsonHeaders, success |-> TRUE,
                           row |-> edgeRows'[Len(edgeRows')],
                           backend_response |-> backendData])
          ELSE /\ Respond(ErrorResponse("Failed to save chat message: timeout",
                                        "Failed to process chat message"))
               /\ edgeLog' = Append(edgeLog, "insert failed")
               /\ edgeRows' = edgeRows
  /\ UNCHANGED <<restVars, edgeFn, req, edgeNotebook, genreLookup, allBookIds, backendData>>

NextEdge ==
  \/ EdgeOptions
  \/ CreateReceive
  \/ \E ok \in BOOLEAN : CreateAInsert(ok)
  \/ \E outcome \in BackendOutcomes : CreateABackend(outcome)
  \/ \E outcome \in BackendOutcomes : CreateBBackend(outcome)
  \/ \E ok \in BOOLEAN : CreateBInsert(ok)
  \/ SendReceive
  \/ SendNotebookError
  \/ \E notebook \in EdgeNotebooks : SendNotebookFound(notebook)
  \/ \E lookupOk \in BOOLEAN : SendGenreLookup(lookupOk)
  \/ \E outcome \in BackendOutcomes : SendBackend(outcome)
  \/ \E ok \in BOOLEAN : SendPersist(ok)

SpecEdge == InitEdge /\ [][NextEdge]_vars

(* ------------------ mutations of a notebook's selection ---------------- *)
earlyVars == <<hook, normVars, syncVars, legacyVars, nbVars, edgeVars>>
exceptBooks == <<earlyVars, dialogVars, authVars, sendVars>>

InitBooks ==
  /\ ChatOff
  /\ LegacyOff
  /\ NbOff
  /\ EdgeOff
  /\ selection \in {Selection(b, g) :
                      b \in {<<>>, <<"b1">>, <<"b2">>, <<"b1", "b2">>, <<"b2", "b1">>},
                      g \in {<<>>, <<"science">>}}
  /\ mutations = [m \in Slots |-> IdleMutation]
  /\ lastWrite = NoWrite
  /\ removed = {}
  /\ DialogOff
  /\ AuthOff
  /\ SendOff

\* a mutation is called and its select of the notebook is answered: with an
\* error, which it throws, or with the row, which it keeps
MutationRead(m, call, ok) ==
  /\ mutations[m].pc = "idle"
  /\ mutations' =
       [mutations EXCEPT ![m] =
          IF ~ok \/ alreadyAdded(call, selection.selected_books)
          THEN [call |-> call, pc |-> "error", snapshot |-> Selection(<<>>, <<>>),
                invalidated |-> {}]
          ELSE [call |-> call, pc |-> "read", snapshot |-> selection, invalidated |-> {}]]
  /\ UNCHANGED <<exceptBooks, selection, lastWrite, removed>>

\* mutant: the update is computed from the row as it is when the update is applied
MutationWriteOnCurrent(m, ok) ==
  /\ mutations[m].pc = "read"
  /\ LET call == mutations[m].call
     IN IF ok
        THEN /\ selection' =
                  Selection(updated(call.fn, selection.selected_books, call.books),
                            IF writesGenres(call.fn)
                            THEN updated(call.fn, selection.selected_genres, call.genres)
                            ELSE selection.selected_genres)
             /\ mutations' = [mutations EXCEPT ![m].pc = "success",
                                               ![m].invalidated = invalidatedOnSuccess(call.fn)]
             /\ lastWrite' = [call |-> call, snapshot |-> mutations[m].snapshot]
             /\ removed' =
                  IF IsRemoval(call.fn)
                  THEN removed \cup {call.books[i] : i \in 1..Len(call.books)}
                               \cup {call.genres[i] : i \in 1..Len(call.genres)}
                  ELSE (removed \ {call.books[i] : i \in 1..Len(call.books)})
                               \ {call.genres[i] : i \in 1..Len(call.genres)}
        ELSE /\ mutations' = [mutations EXCEPT ![m].pc = "error"]
             /\ UNCHANGED <<selection, lastWrite, removed>>
  /\ UNCHANGED exceptBooks

\* the mutation's update, computed from the row it read, is answered: applied,
\* and onSuccess invalidates; or refused, and the mutation throws
MutationWrite(m, ok) ==
  /\ mutations[m].pc = "read"
  /\ LET call == mutations[m].call
         read == mutations[m].snapshot
     IN IF ok
        THEN /\ selection' =
                  Selection(updated(call.fn, read.selected_books, call.books),
                            IF writesGenres(call.fn)
                            THEN updated(call.fn, read.selected_genres, call.genres)
                            ELSE selection.selected_genres)
             /\ mutations' = [mutations EXCEPT ![m].pc = "success",
                                               ![m].invalidated = invalidatedOnSuccess(call.fn)]
             /\ lastWrite' = [call |-> call, snapshot |-> read]
             /\ removed' =
                  IF IsRemoval(call.fn)
                  THEN removed \cup {call.books[i] : i \in 1..Len(call.books)}
                               \cup {call.genres[i] : i \in 1..Len(call.genres)}
                  ELSE (removed \ {call.books[i] : i \in 1..Len(call.books)})
                               \ {call.genres[i] : i \in 1..Len(call.genres)}
        ELSE /\ mutations' = [mutations EXCEPT ![m].pc = "error"]
             /\ UNCHANGED <<selection, lastWrite, removed>>
  /\ UNCHANGED exceptBooks

NextBooks ==
  \/ \E m \in Slots, call \in MutationCalls, ok \in BOOLEAN : MutationRead(m, call, ok)
  \/ \E m \in Slots, ok \in BOOLEAN : MutationWrite(m, ok)

SpecBooks == InitBooks /\ [][NextBooks]_vars

(* --------------------------- AddBooksDialog ---------------------------- *)
exceptDialog == <<earlyVars, booksVars, authVars, sendVars>>

InitDialog ==
  /\ ChatOff
  /\ LegacyOff
  /\ NbOff
  /\ EdgeOff
  /\ BooksOff
  /\ AuthOff
  /\ SendOff
  /\ selectedGenres = {}
  /\ selectedBookIds = {}
  /\ currentlySelectedBookIds \in SUBSET AllBookIds
  /\ addBooksArgs = NoArgs

\* the genre button, enabled unless every book of the genre is in the notebook
handleGenreToggle(genre) ==
  /\ currentlySelectedBookIds # {"closed"}
  /\ ~(genreIds(genre) \subseteq currentlySelectedBookIds)
  /\ IF genre \in selectedGenres
     THEN /\ selectedGenres' = selectedGenres \ {genre}
          /\ selectedBookIds' = selectedBookIds \ genreIds(genre)
     ELSE /\ selectedGenres' = selectedGenres \cup {genre}
          /\ selectedBookIds' = selectedBookIds \cup genreIds(genre)
  /\ UNCHANGED <<exceptDialog, currentlySelectedBookIds, addBooksArgs>>

\* a book's card, clickable unless the book is in the notebook
handleBookToggle(bookId, genre) ==
  /\ currentlySelectedBookIds # {"closed"}
  /\ bookId \notin currentlySelectedBookIds
  /\ genre = genreOf(bookId)
  /\ IF bookId \in selectedBookIds
     THEN /\ selectedBookIds' = selectedBookIds \ {bookId}
          /\ LET remainingGenreBooks == (genreIds(genre) \ {bookId}) \cap selectedBookIds'
             IN selectedGenres' = IF remainingGenreBooks = {} THEN selectedGenres \ {genre}
                                  ELSE selectedGenres
     ELSE /\ selectedBookIds' = selectedBookIds \cup {bookId}
          /\ selectedGenres' =
               IF genreIds(genre) \subseteq selectedBookIds' THEN selectedGenres \cup {genre}
               ELSE selectedGenres
  /\ UNCHANGED <<exceptDialog, currentlySelectedBookIds, addBooksArgs>>

\* the Add button: the call, then the selections are reset
handleAddToNotebook ==
  /\ currentlySelectedBookIds # {"closed"}
  /\ LET bookIdsToAdd == selectedBookIds \ currentlySelectedBookIds
         genresToAdd == selectedGenres
     IN /\ bookIdsToAdd # {} \/ genresToAdd # {}
        /\ addBooksArgs' = [called |-> TRUE, bookIds |-> bookIdsToAdd, genres |-> genresToAdd]
        /\ selectedBookIds' = {}
        /\ selectedGenres' = {}
  /\ UNCHANGED <<exceptDialog, currentlySelectedBookIds>>

NextDialog ==
  \/ \E genre \in availableGenres : handleGenreToggle(genre)
  \/ \E bookId \in AllBookIds, genre \in availableGenres : handleBookToggle(bookId, genre)
  \/ handleAddToNotebook

SpecDialog == InitDialog /\ [][NextDialog]_vars

(* ----------------------------- AuthProvider ---------------------------- *)
exceptAuth == <<earlyVars, booksVars, dialogVars, sendVars>>

InitAuth ==
  /\ ChatOff
  /\ LegacyOff
  /\ NbOff
  /\ EdgeOff
  /\ BooksOff
  /\ DialogOff
  /\ SendOff
  /\ authUser = NoUser
  /\ authSession = NoSession
  /\ authLoading = TRUE
  /\ authError = NULL
  /\ lastUserIdRef = NULL
  /\ mountedRef = TRUE
  /\ initPc = "getSession"
  /\ profiles = 0
  /\ signOutPc = "idle"
  /\ signOutResult = "none"
  /\ signedOut = FALSE
  /\ lastEvent = NoEvent
  /\ setAfterUnmount = FALSE

\* the three values updateAuthState and clearAuthState set together
Held == [lastUserIdRef |-> lastUserIdRef, session |-> authSession, user |-> authUser]
Apply(held) ==
  /\ lastUserIdRef' = held.lastUserIdRef
  /\ authSession' = held.session
  /\ authUser' = held.user

\* mutant: the session is applied without its user
updateAuthStateKeepingUser(newSession) ==
  LET nextUser == newSession.user
      nextUserId == nextUser.id
  IN IF lastUserIdRef # nextUserId
     THEN [lastUserIdRef |-> nextUserId, session |-> newSession, user |-> authUser]
     ELSE Held

\* updateAuthState(newSession); the effect's closure holds the first render's
\* error, null, so its setError(null) is never reached
updateAuthState(newSession) ==
  LET nextUser == newSession.user
      nextUserId == nextUser.id
  IN IF lastUserIdRef # nextUserId
     THEN [lastUserIdRef |-> nextUserId, session |-> newSession, user |-> nextUser]
     ELSE Held

\* clearAuthState(), its setError(null) apart
clearAuthState == [lastUserIdRef |-> NULL, session |-> NoSession, user |-> NoUser]

\* value.isAuthenticated
isAuthenticated == authUser # NoUser /\ authSession # NoSession

\* a setter is called: it counts as late when the cleanup has run
SetterCalled == setAfterUnmount' = (setAfterUnmount \/ ~mountedRef)

\* initializeAuth: getSession() settles
InitializeAuthGetSession(outcome) ==
  /\ initPc = "getSession"
  /\ IF outcome.kind = "throws"
     THEN \* catch (err)
          /\ initPc' = "done"
          /\ IF mountedRef
             THEN /\ authError' = "Authentication error"
                  /\ authLoading' = FALSE
                  /\ SetterCalled
             ELSE UNCHANGED <<authError, authLoading, setAfterUnmount>>
          /\ UNCHANGED <<authUser, authSession, lastUserIdRef, lastEvent>>
     ELSE IF ~mountedRef
     THEN /\ initPc' = "done"
          /\ UNCHANGED <<authUser, authSession, lastUserIdRef, authError, authLoading, lastEvent,
                         setAfterUnmount>>
     ELSE IF outcome.kind = "session_not_found"
     THEN /\ initPc' = "localSignOut"
          /\ UNCHANGED <<authUser, authSession, lastUserIdRef, authError, authLoading, lastEvent,
                         setAfterUnmount>>
     ELSE IF outcome.kind = "error"
     THEN /\ initPc' = "done"
          /\ authError' = "sessionError.message"
          /\ authLoading' = FALSE
          /\ SetterCalled
          /\ UNCHANGED <<authUser, authSession, lastUserIdRef, lastEvent>>
     ELSE /\ initPc' = "done"
          /\ Apply(updateAuthState(outcome.session))
          /\ authLoading' = FALSE
          /\ SetterCalled
          /\ lastEvent' = NoEvent
          /\ UNCHANGED authError
  /\ UNCHANGED <<exceptAuth, mountedRef, profiles, signOutPc, signOutResult, signedOut>>

\* initializeAuth: the awaited signOut({ scope: 'local' }) settles
InitializeAuthLocalSignOut(ok) ==
  /\ initPc = "localSignOut"
  /\ initPc' = "done"
  /\ IF ok
     THEN /\ Apply(clearAuthState)
          /\ authError' = NULL
          /\ authLoading' = FALSE
          /\ SetterCalled
          /\ lastEvent' = NoEvent
     ELSE \* catch (err)
          /\ IF mountedRef
             THEN /\ authError' = "Authentication error"
                  /\ authLoading' = FALSE
                  /\ SetterCalled
             ELSE UNCHANGED <<authError, authLoading, setAfterUnmount>>
          /\ UNCHANGED <<authUser, authSession, lastUserIdRef, lastEvent>>
  /\ UNCHANGED <<exceptAuth, mountedRef, profiles, signOutPc, signOutResult, signedOut>>

\* the onAuthStateChange callback, up to its await or its return
AuthStateChange(e) ==
  /\ mountedRef
  /\ e.event = "SIGNED_UP" => profiles < MaxProfiles
  /\ lastEvent' = e
  /\ signedOut' = (signedOut /\ e.event \notin {"SIGNED_IN", "SIGNED_UP"})
  /\ IF e.event = "SIGNED_OUT"
     THEN /\ Apply(clearAuthState)
          /\ authError' = NULL
          /\ authLoading' = FALSE
          /\ UNCHANGED profiles
     ELSE IF e.event = "SIGNED_UP"
     THEN /\ Apply(updateAuthState(e.session))
          /\ profiles' = profiles + 1
          /\ UNCHANGED <<authError, authLoading>>
     ELSE /\ Apply(updateAuthState(e.session))
          /\ authLoading' = FALSE
          /\ UNCHANGED <<authError, profiles>>
  /\ SetterCalled
  /\ UNCHANGED <<exceptAuth, mountedRef, initPc, signOutPc, signOutResult>>

\* the SIGNED_UP callback after its awaited createUserProfile (which never throws)
ProfileCreated ==
  /\ profiles > 0
  /\ profiles' = profiles - 1
  /\ authLoading' = FALSE
  /\ SetterCalled
  /\ UNCHANGED <<exceptAuth, authUser, authSession, authError, lastUserIdRef, mountedRef, initPc,
                 signOutPc, signOutResult, signedOut, lastEvent>>

\* signOut(): the optimistic clear, then the remote sign-out is awaited
SignOutCall ==
  /\ mountedRef
  /\ signOutPc = "idle"
  /\ signOutPc' = "remote"
  /\ signOutResult' = "none"
  /\ Apply(clearAuthState)
  /\ authError' = NULL
  /\ signedOut' = TRUE
  /\ lastEvent' = NoEvent
  /\ SetterCalled
  /\ UNCHANGED <<exceptAuth, authLoading, mountedRef, initPc, profiles>>

\* signOut(): supabase.auth.signOut() settles
SignOutRemote(outcome) ==
  /\ signOutPc = "remote"
  /\ IF outcome = "ok"
     THEN signOutPc' = "idle" /\ signOutResult' = "successful"
     ELSE IF outcome \in {"session_not_found", "403"}
     THEN signOutPc' = "idle" /\ signOutResult' = "already invalid"
     ELSE IF outcome = "error"
     THEN signOutPc' = "local" /\ UNCHANGED signOutResult
     ELSE signOutPc' = "localCaught" /\ UNCHANGED signOutResult
  /\ UNCHANGED <<exceptAuth, authUser, authSession, authLoading, authError, lastUserIdRef,
                 mountedRef, initPc, profiles, signedOut, lastEvent, setAfterUnmount>>

\* signOut(): an awaited signOut({ scope: 'local' }) settles; the one in the try
\* block is caught by the catch block, whose own is caught in turn
SignOutLocal(ok) ==
  /\ signOutPc \in {"local", "localCaught"}
  /\ IF ok
     THEN signOutPc' = "idle" /\ signOutResult' = "cleared locally"
     ELSE IF signOutPc = "localCaught"
     THEN signOutPc' = "idle" /\ signOutResult' = "local clear failed"
     ELSE signOutPc' = "localCaught" /\ UNCHANGED signOutResult
  /\ UNCHANGED <<exceptAuth, authUser, authSession, authLoading, authError, lastUserIdRef,
                 mountedRef, initPc, profiles, signedOut, lastEvent, setAfterUnmount>>

\* the effect's cleanup
AuthUnmount ==
  /\ mountedRef
  /\ mountedRef' = FALSE
  /\ UNCHANGED <<exceptAuth, authUser, authSession, authLoading, authError, lastUserIdRef, initPc,
                 profiles, signOutPc, signOutResult, signedOut, lastEvent, setAfterUnmount>>

NextAuth ==
  \/ \E outcome \in GetSessionOutcomes : InitializeAuthGetSession(outcome)
  \/ \E ok \in BOOLEAN : InitializeAuthLocalSignOut(ok)
  \/ \E e \in AuthEvents : AuthStateChange(e)
  \/ ProfileCreated
  \/ SignOutCall
  \/ \E outcome \in SignOutOutcomes : SignOutRemote(outcome)
  \/ \E ok \in BOOLEAN : SignOutLocal(ok)
  \/ AuthUnmount

SpecAuth == InitAuth /\ [][NextAuth]_vars

(* ------------------- store, query, push, delete ------------------------ *)
Init ==
  /\ hook \in Hooks
  /\ item = NoItem
  /\ messages = <<>>
  /\ normPc = "off"
  /\ bookMap = {}
  /\ InitSync
  /\ ExtOff

\* a writer inserts a row (send-chat-message's insert, or sendMessage's direct insert);
\* the store stamps it and emits the INSERT event
InsertRow(c) ==
  /\ Cardinality(feed) < MaxRows
  /\ LET row == ChatRow(Cardinality(feed) + 1, c[1], c[2], c[3])
     IN /\ chat_messages' = Append(chat_messages, row)
        /\ feed' = feed \cup {row}
  /\ HandlerReturned
  /\ UNCHANGED <<hook, extVars, normVars, pushes, delivered, handlers, cache, queryVars, deleteStatus>>

\* queryFn: a fetch starts (mount, reconnect, invalidation) and the select on
\* chat_messages answers with the rows, ascending timestamp
QueryFnSelect ==
  /\ queryPc \in {"idle", "error"}
  /\ data' = chat_messages
  /\ queryPc' = "books"
  /\ HandlerReturned
  /\ UNCHANGED <<hook, extVars, normVars, storeVars, pushes, delivered, handlers, cache, isInvalidated,
                 deleteStatus>>

\* queryFn: the select fails, the queryFn throws and the cache keeps its data
QueryFnError ==
  /\ queryPc = "idle"
  /\ queryPc' = "error"
  /\ HandlerReturned
  /\ UNCHANGED <<hook, extVars, normVars, storeVars, pushes, delivered, handlers, cache, data, isInvalidated,
                 deleteStatus>>

\* queryFn: the books select answers, the rows are transformed and become the query data
QueryFnReturn ==
  /\ queryPc = "books"
  /\ \E booksData \in BooksData : cache' = queryFnResult(hook, data, BookMap(booksData))
  /\ queryPc' = "idle"
  /\ isInvalidated' = FALSE
  /\ HandlerReturned
  /\ UNCHANGED <<hook, extVars, normVars, storeVars, pushes, delivered, handlers, data, deleteStatus>>

\* the realtime channel delivers an INSERT event (events arrive in commit order, an
\* event may be delivered again); the handler starts its books lookup
PushReceive(p) ==
  /\ pushes < MaxPushes
  /\ p.id <= delivered + 1
  /\ pushes' = pushes + 1
  /\ delivered' = IF p.id > delivered THEN p.id ELSE delivered
  /\ handlers' = handlers (+) SetToBag({p})
  /\ HandlerReturned
  /\ UNCHANGED <<hook, extVars, normVars, storeVars, cache, queryVars, deleteStatus>>

\* the handler's books lookup answers: transform the payload and merge it into the cache
PushMerge(p) ==
  /\ BagIn(p, handlers)
  /\ handlers' = handlers (-) SetToBag({p})
  /\ payload' = p
  /\ \E booksData \in BooksData :
       newMessages' = handlerNewMessages(hook, p, BookMap(booksData))
  /\ oldMessages' = cache
  /\ cache' = pushMerge(hook, cache, newMessages')
  /\ UNCHANGED <<hook, extVars, normVars, storeVars, pushes, delivered, queryVars, deleteStatus>>

\* deleteChatHistory mutationFn: the store deletes the notebook's rows
DeleteRows ==
  /\ deleteStatus \in {"idle", "success", "error"}
  /\ chat_messages' = <<>>
  /\ deleteStatus' = "deleted"
  /\ HandlerReturned
  /\ UNCHANGED <<hook, extVars, normVars, feed, pushes, delivered, handlers, cache, queryVars>>

\* deleteChatHistory mutationFn: the delete fails, the mutationFn throws; onError
\* shows a toast and leaves the cache alone
DeleteFails ==
  /\ deleteStatus \in {"idle", "success"}
  /\ deleteStatus' = "error"
  /\ HandlerReturned
  /\ UNCHANGED <<hook, extVars, normVars, storeVars, pushes, delivered, handlers, cache, queryVars>>

\* queryClient.invalidateQueries(key): mark the query stale, drop a fetch in flight
\* and fetch again
invalidateQueries ==
  /\ isInvalidated' = TRUE
  /\ queryPc' = "idle"
  /\ data' = <<>>

\* mutant: onSuccess invalidates only, setQueryData(key, []) is lost
DeleteOnSuccessInvalidatesOnly ==
  /\ deleteStatus = "deleted"
  /\ deleteStatus' = "success"
  /\ cache' = cache
  /\ invalidateQueries
  /\ HandlerReturned
  /\ UNCHANGED <<hook, extVars, normVars, storeVars, pushes, delivered, handlers>>

\* deleteChatHistory onSuccess: setQueryData(key, []) then invalidateQueries(key)
DeleteOnSuccess ==
  /\ deleteStatus = "deleted"
  /\ deleteStatus' = "success"
  /\ cache' = <<>>
  /\ invalidateQueries
  /\ HandlerReturned
  /\ UNCHANGED <<hook, extVars, normVars, storeVars, pushes, delivered, handlers>>

Next ==
  \/ \E c \in WrittenContents : InsertRow(c)
  \/ QueryFnSelect
  \/ QueryFnError
  \/ QueryFnReturn
  \/ \E p \in feed : PushReceive(p)
  \/ \E p \in BagToSet(handlers) : PushMerge(p)
  \/ DeleteRows
  \/ DeleteFails
  \/ DeleteOnSuccess

Spec == Init /\ [][Next]_vars

(* ------------------- sendMessage and the INSERT channel ----------------- *)
exceptSend == <<hook, normVars, legacyVars, nbVars, edgeVars, booksVars, dialogVars, authVars>>

\* useChatMessages.tsx: the reply sendMessage writes with its update
aiResponse == "I understand your question"

InitSend ==
  /\ hook \in Hooks
  /\ item = NoItem
  /\ messages = <<>>
  /\ normPc = "off"
  /\ bookMap = {}
  /\ InitSync
  /\ LegacyOff
  /\ NbOff
  /\ EdgeOff
  /\ BooksOff
  /\ DialogOff
  /\ AuthOff
  /\ sendPc = "idle"
  /\ sentId = 0
  /\ sentReply = NULL
  /\ channel = "subscribed"

\* useChatMessages.tsx sendMessage: the insert of the user message with an empty
\* assistant_response; the store emits the row's INSERT event
SendMessageInsert(content, ok) ==
  /\ hook = "useChatMessages.tsx"
  /\ sendPc = "idle"
  /\ IF ok
     THEN LET row == ChatRow(Cardinality(feed) + 1, content, "", [json |-> "null", items |-> <<>>])
          IN /\ chat_messages' = Append(chat_messages, row)
             /\ feed' = feed \cup {row}
             /\ sentId' = row.id
             /\ sendPc' = "inserted"
     ELSE /\ sendPc' = "error"
          /\ UNCHANGED <<chat_messages, feed, sentId>>
  /\ HandlerReturned
  /\ UNCHANGED <<exceptSend, pushes, delivered, handlers, cache, queryVars, deleteStatus, sentReply,
                 channel>>

\* useChatMessages.tsx sendMessage: the update that stores the reply; an UPDATE
\* is no INSERT event
SendMessageUpdate(ok) ==
  /\ sendPc = "inserted"
  /\ IF ok
     THEN /\ chat_messages' =
               [i \in 1..Len(chat_messages) |->
                  IF chat_messages[i].id = sentId
                  THEN [chat_messages[i] EXCEPT !.assistant_response = aiResponse]
                  ELSE chat_messages[i]]
          /\ sentReply' = aiResponse
          /\ sendPc' = "success"
     ELSE /\ sendPc' = "error"
          /\ UNCHANGED <<chat_messages, sentReply>>
  /\ HandlerReturned
  /\ UNCHANGED <<exceptSend, feed, pushes, delivered, handlers, cache, queryVars, deleteStatus,
                 sentId, channel>>

\* part_005 sendMessage: send-chat-message is invoked; it asks the backend and
\* inserts the row with the reply, or fails
SendMessageInvoke(content, outcome, ok) ==
  /\ hook = "part_005"
  /\ sendPc = "idle"
  /\ IF outcome.ok /\ outcome.data.json = "object" /\ ok
     THEN LET insert == ChatInsert(NotebookId, content, outcome.data)
              row == ChatRow(Cardinality(feed) + 1, insert.user_message, insert.assistant_response,
                             IF insert.citations THEN OneCitation
                             ELSE [json |-> "null", items |-> <<>>])
          IN /\ chat_messages' = Append(chat_messages, row)
             /\ feed' = feed \cup {row}
             /\ sentId' = row.id
             /\ sentReply' = row.assistant_response
             /\ sendPc' = "persisted"
     ELSE /\ sendPc' = "error"
          /\ UNCHANGED <<chat_messages, feed, sentId, sentReply>>
  /\ HandlerReturned
  /\ UNCHANGED <<exceptSend, pushes, delivered, handlers, cache, queryVars, deleteStatus, channel>>

\* part_005 sendMessage: the function's answer arrives and the mutation succeeds
SendMessageReturn ==
  /\ sendPc = "persisted"
  /\ sendPc' = "success"
  /\ HandlerReturned
  /\ UNCHANGED <<exceptSend, storeVars, pushes, delivered, handlers, cache, queryVars, deleteStatus,
                 sentId, sentReply, channel>>

\* the subscribed channel delivers an INSERT event to the handler
ChannelDelivers(p) ==
  /\ channel = "subscribed"
  /\ PushReceive(p)

\* the effect's cleanup: supabase.removeChannel(channel)
RemoveChannel ==
  /\ channel = "subscribed"
  /\ channel' = "removed"
  /\ HandlerReturned
  /\ UNCHANGED <<exceptSend, storeVars, pushes, delivered, handlers, cache, queryVars, deleteStatus,
                 sendPc, sentId, sentReply>>

NextSend ==
  \/ \E content \in UserMessages, ok \in BOOLEAN : SendMessageInsert(content, ok)
  \/ \E ok \in BOOLEAN : SendMessageUpdate(ok)
  \/ \E content \in UserMessages, outcome \in BackendOutcomes, ok \in BOOLEAN :
       SendMessageInvoke(content, outcome, ok)
  \/ SendMessageReturn
  \/ \E p \in feed : ChannelDelivers(p)
  \/ \E p \in BagToSet(handlers) : PushMerge(p)
  \/ RemoveChannel

SpecSend == InitSend /\ [][NextSend]_vars

(* ------------------------------ claims -------------------------------- *)
IsPrefix(a, b) == Len(a) <= Len(b) /\ SubSeq(b, 1, Len(a)) = a
idsOf(ms) == [i \in 1..Len(ms) |-> ms[i].id]
NoAssistantResponse(row) == row.assistant_response \in {NULL, ""}
CitationsAbsentOrEmpty(row) ==
  row.citations.json = "null" \/ (row.citations.json = "array" /\ row.citations.items = <<>>)
\* a step in which an INSERT handler ran its merge callback
PushMerged == payload' # NoItem
\* a step in which the queryFn returned and its result became the query data
QueryReturned == queryPc = "books" /\ queryPc' = "idle" /\ ~isInvalidated'
\* a step in which deleteChatHistory's onSuccess ran
DeleteSucceeded == deleteStatus = "deleted" /\ deleteStatus' = "success"

\* C1: a row whose assistant_response is empty or absent normalizes to exactly one
\* message, the human message "<rowId>-user" with content user_message
\* (as claimed; transformChatMessage of useChatMessages.tsx violates it)
C1_EmptyResponseYieldsHumanOnly ==
  (normPc = "done" /\ NoAssistantResponse(item))
    => /\ Len(messages) = 1
       /\ messages[1].id = <<item.id, "user">>
       /\ messages[1].message.type = "human"
       /\ messages[1].message.content = PlainText(item.user_message)

\* C2: a row with a non-empty assistant_response and absent or empty citations
\* normalizes to exactly two messages, "<rowId>-user" then "<rowId>-assistant",
\* the assistant's content being the plain assistant_response text
C2_NoCitationsYieldsPlainText ==
  (normPc = "done" /\ ~NoAssistantResponse(item) /\ CitationsAbsentOrEmpty(item))
    => /\ Len(messages) = 2
       /\ idsOf(messages) = << <<item.id, "user">>, <<item.id, "assistant">> >>
       /\ messages[1].message.type = "human"
       /\ messages[2].message.type = "ai"
       /\ messages[2].message.content = PlainText(item.assistant_response)

C2_Witness ==
  /\ normPc = "done" /\ hook = "part_005"
  /\ item.assistant_response = "A"
  /\ item.citations.json = "array" /\ item.citations.items = <<>>
  /\ Len(messages) = 2

\* C3: (part_005) a row with a non-empty assistant_response and N >= 1 citations:
\* the assistant content is structured, with exactly one segment holding the
\* full text tagged citation_id 1, and N citations numbered 1..N in input order
C3_CitationIdsContiguous ==
  (/\ normPc = "done" /\ hook = "part_005"
   /\ ~NoAssistantResponse(item)
   /\ item.citations.json = "array" /\ Len(item.citations.items) >= 1)
    => /\ Len(messages) = 2
       /\ messages[2].message.content.kind = "structured"
       /\ messages[2].message.content.segments
            = << [text |-> item.assistant_response, citation_id |-> 1] >>
       /\ LET cits == messages[2].message.content.citations
              input == item.citations.items
          IN /\ Len(cits) = Len(input)
             /\ \A i \in 1..Len(cits) :
                  /\ cits[i].citation_id = i
                  /\ cits[i].source_id = input[i].source_id

C3_Witness ==
  /\ normPc = "done" /\ hook = "part_005"
  /\ item.assistant_response = "A"
  /\ item.citations.json = "array" /\ Len(item.citations.items) = MaxCitations
  /\ Len(messages[2].message.content.citations) = MaxCitations
  /\ item.citations.items[1].source_id # item.citations.items[2].source_id

\* C4: push-merge idempotence: whatever the cache holds and whichever row is
\* pushed, merging the same push a second time leaves the cache as the first
\* merge left it
C4_PushMergeIdempotent ==
  \A p \in feed : \A booksData \in BooksData :
    LET new == handlerNewMessages(hook, p, BookMap(booksData))
        once == pushMerge(hook, cache, new)
    IN pushMerge(hook, once, new) = once

\* the only row ever inserted was pushed twice, and the second merge changed nothing
C4_Witness ==
  /\ Cardinality(feed) = 1 /\ pushes >= 2 /\ handlers = EmptyBag
  /\ payload \in feed
  /\ cache = oldMessages /\ cache # <<>>

\* C5: the cache never holds two messages with the same id, and a push merge
\* adds every pushed message whose id is not cached yet
\* (as claimed; the merge callback of useChatMessages.tsx violates the second part)
C5_NoDuplicatesAndPushAdds ==
  /\ [](\A i, j \in 1..Len(allMessages(cache)) :
          allMessages(cache)[i].id = allMessages(cache)[j].id => i = j)
  /\ [][PushMerged =>
          LET before == {allMessages(cache)[i].id : i \in 1..Len(allMessages(cache))}
              after == {allMessages(cache')[i].id : i \in 1..Len(allMessages(cache'))}
              pushed == {<<payload'.id, "user">>}
                          \cup (IF NoAssistantResponse(payload') THEN {}
                                ELSE {<<payload'.id, "assistant">>})
          IN pushed \ before \subseteq after]_vars

\* C6: a push merge is append-only: the cache before the merge is a prefix of
\* the cache after it
C6_PushMergeAppendOnly == [][PushMerged => IsPrefix(cache, cache')]_vars

C6_Witness ==
  /\ payload # NoItem
  /\ oldMessages # <<>>
  /\ Len(cache) > Len(oldMessages)
  /\ IsPrefix(oldMessages, cache)

\* C7: the cached messages are ordered by the insertion order of their rows,
\* "<rowId>-user" immediately before "<rowId>-assistant"
\* (as claimed; two handlers in flight whose lookups answer in the other order violate it)
C7_CacheInInsertionOrder ==
  LET ms == allMessages(cache)
  IN /\ \A i, j \in 1..Len(ms) : i < j => ms[i].id[1] <= ms[j].id[1]
     /\ \A j \in 1..Len(ms) :
          ms[j].id[2] = "assistant" => (j > 1 /\ ms[j - 1].id = <<ms[j].id[1], "user">>)

\* C8 as claimed: when deleteChatHistory succeeds the cache becomes the empty
\* sequence and no invalidate-and-refetch is triggered
C8_ClearedWithoutInvalidate ==
  [][DeleteSucceeded => (cache' = <<>> /\ UNCHANGED <<queryPc, data, isInvalidated>>)]_vars

\* C8 amended: when deleteChatHistory succeeds the cache becomes the empty
\* sequence and the cache entry is invalidated, so that it is fetched again
C8_ClearedAndInvalidated ==
  [][DeleteSucceeded => (cache' = <<>> /\ isInvalidated' /\ queryPc' = "idle")]_vars

C8_Witness ==
  /\ deleteStatus = "success"
  /\ feed # {} /\ chat_messages = <<>>
  /\ cache = <<>> /\ isInvalidated /\ queryPc = "idle"
  /\ pushes > 0 /\ handlers = EmptyBag

\* C9: after deleteChatHistory succeeded the cache holds no message derived from
\* a deleted row, and the rows the next fetch reads hold no deleted row
\* (as claimed; a handler in flight at the delete merges its deleted row afterwards)
C9_NoStaleMessagesAfterDelete ==
  deleteStatus = "success" =>
    LET stored == {chat_messages[i].id : i \in 1..Len(chat_messages)}
        ms == allMessages(cache)
    IN /\ \A i \in 1..Len(ms) : ms[i].id[1] \in stored
       /\ \A i \in 1..Len(data) : data[i].id \in stored

RECURSIVE ExpectedIds(_)
ExpectedIds(rows) ==
  IF rows = <<>> THEN <<>>
  ELSE (IF NoAssistantResponse(Head(rows))
        THEN << <<Head(rows).id, "user">> >>
        ELSE << <<Head(rows).id, "user">>, <<Head(rows).id, "assistant">> >>)
       \o ExpectedIds(Tail(rows))

\* C10: the queryFn returns one flat sequence: every element is a single message
\* with its own id, rows in ascending timestamp order, each row giving its human
\* message followed by its assistant message if it has a response
\* (as claimed; the queryFn of useChatMessages.tsx violates it)
C10_QueryResultFlatAndOrdered ==
  [][QueryReturned =>
       /\ \A i, j \in 1..Len(data) : i < j => data[i].timestamp <= data[j].timestamp
       /\ \A i \in 1..Len(cache') : "id" \in DOMAIN cache'[i]
       /\ [i \in 1..Len(cache') |-> idOf(cache'[i])] = ExpectedIds(data)]_vars


\* bookMap.has(id)
LookedUp(id) == \E b \in bookMap : b.id = id

\* C11: (part_005) normalizing a row's citations against the book lookup: a
\* citation whose source_id is not in the lookup gets source_title "Unknown Source"
\* and source_type "book", one whose source_id is in the lookup gets the lookup's
\* title and type (as claimed; transformDbRowToChatMessages never reads the lookup)
C11_CitationsResolvedAgainstLookup ==
  (/\ normPc = "done" /\ hook = "part_005"
   /\ ~NoAssistantResponse(item)
   /\ item.citations.json = "array" /\ Len(item.citations.items) >= 1)
    => /\ Len(messages) = 2
       /\ messages[2].message.content.kind = "structured"
       /\ LET cits == messages[2].message.content.citations
              input == item.citations.items
          IN /\ Len(cits) = Len(input)
             /\ \A i \in 1..Len(cits) :
                  IF LookedUp(input[i].source_id)
                  THEN LET b == CHOOSE b \in bookMap : b.id = input[i].source_id
                       IN cits[i].source_title = b.title /\ cits[i].source_type = b.type
                  ELSE /\ cits[i].source_title = "Unknown Source"
                       /\ cits[i].source_type = "book"


\* transformMessage has returned
LegacyReturned == legacyOut # NoOutcome
\* the item is an AI message whose content is a string
LegacyAiString ==
  /\ legacyItem.message.shape = "object" /\ legacyItem.message.type = "ai"
  /\ legacyItem.message.content.typeof = "string"
\* ... that parses to an object with an output array
LegacyAiOutput ==
  /\ LegacyAiString
  /\ legacyItem.message.content.parse = "object"
  /\ legacyItem.message.content.output = "array"
\* every output item is a {text?, citations?} object as N8nAiResponseContent declares
WellTyped(output) ==
  \A i \in 1..Len(output) :
    /\ ~output[i].isNull
    /\ output[i].citations.json \in {"absent", "array"}
    /\ \A j \in 1..Len(output[i].citations.items) : ~output[i].citations.items[j].isNull
\* output item i carries at least one citation
Bearing(output, i) == Len(output[i].citations.items) >= 1
\* the number of citation-bearing items among the first i
Rank(output, i) == Cardinality({j \in 1..i : Bearing(output, j)})
\* the citation_ids the claim expects, in output order
RECURSIVE ExpectedCitationIds(_, _)
ExpectedCitationIds(output, i) ==
  IF i > Len(output) THEN <<>>
  ELSE [j \in 1..Len(output[i].citations.items) |-> Rank(output, i)]
         \o ExpectedCitationIds(output, i + 1)

\* C12: a legacy AI message whose content is a JSON string with an output array
\* (of {text, citations[]} items) normalizes to one segment per output item in
\* order; the k-th item that carries citations has citation_id k on its segment
\* and on every one of its citations, counting from 1, and items without
\* citations carry no citation_id
C12_CounterPerCitationBearingItem ==
  (LegacyReturned /\ LegacyAiOutput /\ WellTyped(legacyItem.message.content.items))
    => /\ ~legacyOut.raised
       /\ legacyOut.message.type = "ai"
       /\ legacyOut.message.content.kind = "structured"
       /\ LET output == legacyItem.message.content.items
              segments == legacyOut.message.content.segments
              citations == legacyOut.message.content.citations
          IN /\ Len(segments) = Len(output)
             /\ \A i \in 1..Len(output) :
                  /\ segments[i].text = output[i].text
                  /\ segments[i].citation_id
                       = IF Bearing(output, i) THEN Rank(output, i) ELSE NoIndex
             /\ [j \in 1..Len(citations) |-> citations[j].citation_id]
                  = ExpectedCitationIds(output, 1)

C12_Witness ==
  /\ LegacyReturned /\ LegacyAiOutput
  /\ Len(legacyItem.message.content.items) = 2
  /\ WellTyped(legacyItem.message.content.items)
  /\ Len(legacyItem.message.content.items[1].citations.items) = 2
  /\ Len(legacyItem.message.content.items[2].citations.items) = 1
  /\ [j \in 1..3 |-> legacyOut.message.content.citations[j].citation_id] = <<1, 1, 2>>
  /\ legacyOut.message.content.segments[2].citation_id = 2

\* C13: transformMessage never raises to its caller and always returns a
\* message, whatever the item; an AI string content that cannot be parsed into
\* segments (not JSON, JSON null, no output array, a null output item, ill-typed
\* citations) is returned verbatim as the plain-text content of an AI message
C13_LegacyNeverRaises ==
  LegacyReturned
    => /\ ~legacyOut.raised
       /\ legacyOut.id = legacyItem.id
       /\ legacyOut.message.type \in {"human", "ai"}
       /\ legacyOut.message.content.kind \in {"string", "structured"}
       /\ (LegacyAiString /\ ~(LegacyAiOutput /\ WellTyped(legacyItem.message.content.items)))
            => legacyOut.message
                 = [type |-> "ai", content |-> PlainText(legacyItem.message.content)]

C13_Witness ==
  /\ LegacyReturned /\ LegacyAiOutput
  /\ \E i \in 1..Len(legacyItem.message.content.items) :
       legacyItem.message.content.items[i].isNull
  /\ ~legacyOut.raised
  /\ legacyOut.message.content = PlainText(legacyItem.message.content)


\* the message says authentication failed: it contains "JWT" or "auth"
IsAuthError(error) == error.hasMessage /\ (error.JWT \/ error.auth)

\* C14: the notebooks read is retried at most 3 times after its first failure, so
\* its queryFn runs at most 4 times, and it is never run again after a failure
\* whose error message contains "JWT" or "auth": such a failure on the first run
\* leaves exactly one run
C14_RetryAtMostThriceNeverOnAuth ==
  /\ nbAttempts <= 4
  /\ (nbPc = "fetching" /\ nbAttempts >= 1) => ~IsAuthError(nbError)
  /\ (nbPc = "error" /\ IsAuthError(nbError)) => nbAttempts = failureCount + 1
  /\ (nbPc = "error" /\ IsAuthError(nbError) /\ failureCount = 0) => nbAttempts = 1

C14_Witness ==
  /\ nbPc = "error"
  /\ nbAttempts = 4
  /\ ~IsAuthError(nbError)

Elements(seq) == {seq[i] : i \in 1..Len(seq)}
\* what the handler has done so far includes event e
Logged(e) == e \in Elements(edgeLog)
\* the union the claim describes: selected_books and the books of the selected genres
EffectiveBookSet(notebook) ==
  Elements(OrEmpty(notebook.selected_books))
    \cup {b.id : b \in {t \in BooksTable :
                          t.genre \in Elements(OrEmpty(notebook.selected_genres))}}
\* send-chat-message has resolved its book ids
BooksResolved == edgeFn = SendChatMessage /\ genreLookup # "none"

\* C16 as claimed: the resolved list holds every id of the union of selected_books
\* and the books of the selected genres exactly once, for every notebook, also
\* when selected_genres is empty and when the genre lookup fails
C16_ResolvedIsUnionAlways ==
  BooksResolved
    => /\ Elements(allBookIds) = EffectiveBookSet(edgeNotebook)
       /\ Len(allBookIds) = Cardinality(Elements(allBookIds))

\* C16: when selected_genres is non-empty and the genre lookup answers, the
\* resolved list holds every id of the union exactly once; when selected_genres
\* is empty or absent, or the genre lookup fails, the resolved list is
\* selected_books as stored (empty when null)
C16_ResolvedIsUnionWhenAnswered ==
  BooksResolved
    => /\ genreLookup = "answered"
            => /\ Elements(allBookIds) = EffectiveBookSet(edgeNotebook)
               /\ Len(allBookIds) = Cardinality(Elements(allBookIds))
       /\ genreLookup \in {"skipped", "failed"}
            => allBookIds = OrEmpty(edgeNotebook.selected_books)
       /\ (genreLookup = "skipped") <=> (Len(OrEmpty(edgeNotebook.selected_genres)) = 0)

C16_Witness ==
  /\ BooksResolved
  /\ genreLookup = "answered"
  /\ edgeNotebook.selected_books = ArrayColumn(<<"b3", "b1">>)
  /\ edgeNotebook.selected_genres = ArrayColumn(<<"fiction", "science">>)
  /\ allBookIds = <<"b3", "b1", "b2">>

\* the 200 body of a handler that inserted its row
SuccessOf(row, answer) ==
  [status |-> 200, kind |-> "success", headers |-> jsonHeaders, success |-> TRUE, row |-> row, backend_response |-> answer]
\* the handler answered {error} with status 500
Answered500 ==
  /\ edgePc = "done"
  /\ response.status = 500 /\ response.kind = "error" /\ response.error # ""
\* the body lacks one of the two required fields, or is not JSON
InvalidBody ==
  req.body.json # "object" \/ ~Truthy(req.body.first) \/ ~Truthy(req.body.second)

\* C17: (variant A) the row is inserted before the backend is called, and once
\* the insert has succeeded the response is 200, success: true, with the inserted
\* notebook, whatever the backend call did; a failed backend call gives
\* backend_response null
C17_NonBlockingCreate ==
  edgeFn = CreateNotebookA
    => /\ (Logged("backend ok") \/ Logged("backend failed"))
            => edgeLog[1] = "insert" /\ Len(edgeLog) = 2 /\ Len(edgeRows) = 1
       /\ Logged("insert") => edgePc \in {"backend", "done"} /\ ~InvalidBody
       /\ (Logged("insert") /\ edgePc = "done")
            => /\ response = SuccessOf(NotebookInsert(req.body.first, req.body.second),
                                       backendData)
               /\ edgeRows = <<response.row>>
               /\ Logged("backend failed") => response.backend_response = NoBackendData

C17_Witness ==
  /\ edgeFn = CreateNotebookA
  /\ edgePc = "done"
  /\ edgeLog = <<"insert", "backend failed">>
  /\ response.status = 200 /\ response.success
  /\ response.backend_response = NoBackendData

\* C18: (variant B) the backend is called before the insert, and a failed backend
\* call ends the request: no row is inserted and the response is {error}, 500
C18_BlockingCreate ==
  edgeFn = CreateNotebookB
    => /\ (Logged("insert") \/ Logged("insert failed")) => edgeLog[1] = "backend ok"
       /\ Logged("backend failed")
            => edgeLog = <<"backend failed">> /\ edgeRows = <<>> /\ Answered500
       /\ edgePc = "insert" => edgeLog = <<"backend ok">>

C18_Witness ==
  /\ edgeFn = CreateNotebookB
  /\ edgeLog = <<"backend failed">>
  /\ edgeRows = <<>>
  /\ Answered500

\* C19: (create-notebook, both variants) a request whose name or user_id is
\* missing is answered {error}, 500, with no row inserted and no backend call;
\* a failed insert is answered {error}, 500 too
C19_CreateFailuresAre500 ==
  (edgeFn \in {CreateNotebookA, CreateNotebookB} /\ req.method # "OPTIONS")
    => /\ InvalidBody => edgeLog = <<>> /\ edgeRows = <<>>
       /\ (InvalidBody /\ edgePc = "done") => Answered500
       /\ Logged("insert failed") => Answered500 /\ edgeRows = <<>>

C19_Witness ==
  /\ edgeFn \in {CreateNotebookA, CreateNotebookB}
  /\ req.method # "OPTIONS"
  /\ req.body.json = "object" /\ req.body.first = NULL
  /\ Answered500
  /\ response.error = "name and user_id are required"
  /\ edgeLog = <<>>

\* C20: (send-chat-message) the response is 200 with success: true exactly when
\* one ChatRow was inserted for the request; a failure at validation, notebook
\* lookup, backend call or persistence is answered {error}, 500, and no ChatRow
\* is persisted
C20_SuccessIffOneRow ==
  edgeFn = SendChatMessage
    => /\ Len(edgeRows) <= 1
       /\ edgePc # "done" => edgeRows = <<>>
       /\ edgePc = "done"
            => /\ (response.status = 200 /\ response.kind = "success") <=> (Len(edgeRows) = 1)
               /\ Len(edgeRows) = 1
                    => response = SuccessOf(ChatInsert(req.body.first, req.body.second,
                                                       backendData), backendData)
                         /\ edgeRows = <<response.row>>
               /\ (req.method # "OPTIONS" /\ Len(edgeRows) = 0) => Answered500
       /\ (\/ req.method # "OPTIONS" /\ InvalidBody /\ edgePc = "done"
           \/ edgePc = "done" /\ req.method # "OPTIONS" /\ ~InvalidBody
                /\ edgeNotebook = NoNotebook
           \/ Logged("backend failed")
           \/ Logged("insert failed"))
            => Answered500 /\ edgeRows = <<>>

C20_Witness ==
  /\ edgeFn = SendChatMessage
  /\ edgePc = "done"
  /\ response.kind = "success" /\ response.status = 200 /\ response.success
  /\ edgeRows = <<response.row>>
  /\ response.row.assistant_response = "No response"


\* an OPTIONS request has been answered
PreflightAnswered == req.method = "OPTIONS" /\ edgePc = "done"

\* C21 as claimed: every handler answers an OPTIONS request with status 204 and
\* the CORS headers, without reading the body, the store or the backend
C21_PreflightIs204 ==
  PreflightAnswered
    => /\ response.status = 204
       /\ response.headers = corsHeaders
       /\ edgeLog = <<>> /\ edgeRows = <<>>

\* C21: every handler answers an OPTIONS request with status 200, no body and the
\* CORS headers, whatever the request body is, and without any insert, lookup or
\* backend call
C21_PreflightIs200 ==
  /\ PreflightAnswered
       => /\ response.status = 200 /\ response.kind = "empty"
          /\ response.headers = corsHeaders
          /\ corsHeaders.AccessControlAllowOrigin = "*"
          /\ edgeLog = <<>> /\ edgeRows = <<>>
          /\ edgeNotebook = NoNotebook /\ genreLookup = "none"
  /\ req.method = "OPTIONS" => edgePc \in {"received", "done"}

C21_Witness ==
  /\ PreflightAnswered
  /\ edgeFn = CreateNotebookA
  /\ req.body.json = "SyntaxError"
  /\ response = PreflightResponse


\* no entry occurs twice
NoDuplicates(array) == Cardinality(Elements(array)) = Len(array)
\* the ids a removal names
Named(call) == Elements(call.books) \cup Elements(call.genres)
Stored == Elements(selection.selected_books) \cup Elements(selection.selected_genres)

\* C22: the mutations are unguarded read-modify-write: what is stored after a
\* write is computed from the row its mutation read, whatever was written in
\* between, so of two mutations that both read before either writes the later
\* write wins and drops the other's addition while both succeed
C22_LaterWriteWins ==
  lastWrite # NoWrite
    => /\ selection.selected_books
            = updated(lastWrite.call.fn, lastWrite.snapshot.selected_books, lastWrite.call.books)
       /\ writesGenres(lastWrite.call.fn)
            => selection.selected_genres
                 = updated(lastWrite.call.fn, lastWrite.snapshot.selected_genres,
                           lastWrite.call.genres)

C22_Witness ==
  /\ mutations[1].pc = "success" /\ mutations[2].pc = "success"
  /\ mutations[1].call = MutationCall(AddBooks, <<"b1">>, <<>>)
  /\ mutations[2].call = MutationCall(AddBooks, <<"b2">>, <<>>)
  /\ mutations[1].snapshot = Selection(<<>>, <<>>)
  /\ mutations[2].snapshot = Selection(<<>>, <<>>)
  /\ lastWrite.call = mutations[2].call
  /\ selection.selected_books = <<"b2">>

\* C25 as claimed: under every interleaving the stored arrays hold no entry
\* twice, and an id whose latest written request was its removal is absent
C25_NoDuplicatesRemovedStaysAbsent ==
  /\ NoDuplicates(selection.selected_books)
  /\ NoDuplicates(selection.selected_genres)
  /\ removed \cap Stored = {}

\* C25: under every interleaving the stored arrays hold no entry twice, and
\* right after a removal's write the id it names is absent
C25_NoDuplicatesRemovedAbsentAtWrite ==
  /\ NoDuplicates(selection.selected_books)
  /\ NoDuplicates(selection.selected_genres)
  /\ IsRemoval(lastWrite.call.fn) => Named(lastWrite.call) \cap Stored = {}

C25_Witness ==
  /\ lastWrite.call = MutationCall(RemoveBook, <<"b1">>, <<>>)
  /\ "b1" \notin Stored
  /\ \E m \in Slots :
       /\ mutations[m].pc = "read"
       /\ mutations[m].call.fn = AddBooks
       /\ "b1" \in Elements(mutations[m].snapshot.selected_books)

\* C27: every successful mutation of the selection invalidates ['books', id],
\* ['notebook-books', id] and the notebooks list, and a failed one invalidates
\* nothing (as claimed; each hook invalidates only its own views)
C27_SuccessInvalidatesEveryView ==
  \A m \in Slots :
    /\ mutations[m].pc = "success"
         => mutations[m].invalidated = {"books", "notebook-books", "notebooks"}
    /\ mutations[m].pc = "error" => mutations[m].invalidated = {}


\* C26: in AddBooksDialog a genre is in selectedGenres only if every book of
\* the genre is in selectedBookIds (as claimed; taking one book of a selected
\* genre out leaves the genre selected while another of its books remains)
C26_SelectedGenreIsFullySelected ==
  \A genre \in selectedGenres : genreIds(genre) \subseteq selectedBookIds


\* C28: once signOut() has cleared the local auth state, user and session stay
\* null until a SIGNED_IN or SIGNED_UP event, whatever other event arrives and
\* however the remote sign-out ends, and signOut() never throws (as claimed;
\* a TOKEN_REFRESHED or USER_UPDATED event re-populates them)
C28_SignedOutStaysSignedOut ==
  /\ signedOut => authUser = NoUser /\ authSession = NoSession
  /\ signOutResult # "threw"

\* C29: while mounted, the session held is the session of the most recent auth
\* event (as claimed; an event with a new session for the same user id is dropped)
C29_SessionIsLatestEvents ==
  lastEvent # NoEvent => authSession = lastEvent.session

\* C30: user is null exactly when session is null, isAuthenticated says whether
\* a user is held, and lastUserIdRef is the held user's id, or null
C30_UserSessionRefAgree ==
  /\ authUser = NoUser <=> authSession = NoSession
  /\ isAuthenticated <=> authUser # NoUser
  /\ lastUserIdRef = authUser.id
  /\ authSession # NoSession => authSession.user = authUser

\* C30 witness: a session is held after an event for another user replaced one,
\* and the state was cleared before that
C30_Witness ==
  /\ mountedRef
  /\ isAuthenticated
  /\ lastEvent.event = "TOKEN_REFRESHED"
  /\ authSession = lastEvent.session
  /\ signOutResult = "successful"


\* C23: after unmount nothing in flight applies its result: AuthProvider calls no
\* state setter once its cleanup ran, and the INSERT handler does not write the
\* chat cache once the channel was removed (as claimed; initializeAuth after its
\* awaited local sign-out, the SIGNED_UP callback after its awaited profile
\* creation, and the handler after its awaited books lookup all do)
C23_NothingAppliedAfterUnmount ==
  /\ [](~setAfterUnmount)
  /\ [][channel = "removed" => cache' = cache]_vars

\* the text of a cached assistant message
ReplyText(msg) ==
  IF msg.message.content.kind = "string" THEN msg.message.content.text
  ELSE msg.message.content.segments[1].text
\* the INSERT event of sendMessage's row was delivered and its handler has merged
SentRowHandled ==
  /\ sentId > 0
  /\ delivered >= sentId
  /\ \A p \in BagToSet(handlers) : p.id # sentId

\* C24: once sendMessage succeeded and the INSERT event of its row was handled,
\* the cache holds "<rowId>-user" and "<rowId>-assistant" with the assistant's
\* reply (as claimed; on the direct-write path the event carries the empty
\* assistant_response and the update is not pushed)
C24_SentRowCachedWithReply ==
  sendPc = "success" /\ SentRowHandled =>
    LET cached == allMessages(cache)
    IN /\ \E i \in 1..Len(cached) : cached[i].id = <<sentId, "user">>
       /\ \E i \in 1..Len(cached) :
            /\ cached[i].id = <<sentId, "assistant">>
            /\ ReplyText(cached[i]) = sentReply

====
